---- MODULE Spec2Model ----
(***************************************************************************)
(* Model of the OAuthPrompt dialog of botbuilder-dialogs                   *)
(* (src/unnamed/part_000): beginDialog, continueDialog, recognizeToken and *)
(* the helpers they call.  One action models one whole call of a handler.  *)
(*                                                                         *)
(* The second half models DialogManager.onTurn                             *)
(* (src/libraries/botbuilder-dialogs/src/dialogManager.ts) as the steps    *)
(* between its awaits, under its own specification SpecDM.                 *)
(*                                                                         *)
(* JavaScript values are modelled as records with a `kind' field, so that  *)
(* `undefined' and objects can be compared:  [kind |-> "undefined"] is     *)
(* undefined, [kind |-> "object", ...] is an object whose own properties   *)
(* are the other fields.  Strings that the code scans (activity.text, the  *)
(* magic code) are sequences of one-character strings.                     *)
(***************************************************************************)
EXTENDS Integers, Sequences, FiniteSets, TLC

VARIABLES
    settings,       \* OAuthPromptSettings + presence of a validator (constructor arguments)
    now,            \* wall clock, new Date().getTime()
    stack,          \* dc.stack: sequence of DialogInstance [id, state]
    ended,          \* the instance handed to the last dc.endDialog(), or NoInstance
    turn,           \* which handler ran last: "none" | "begin" | "continue"
    activity,       \* context.activity of the last turn
    adapter,        \* context.adapter of the last turn (its capabilities)
    respondedIn,    \* context.responded when the handler was entered
    responded,      \* context.responded when the handler left
    sent,           \* outbound activities the handler tried to send, in order
    calls,          \* provider calls made by the handler, in order
    path,           \* recognition paths taken by recognizeToken in the last turn
    recognized,     \* PromptRecognizerResult of the last continue turn
    timedOut,       \* hasTimedOut of the last continue turn
    validated,      \* whether the validator was invoked in the last turn
    isValid,        \* isValid of the last continue turn
    validatorCalls, \* the validator's calls in this activation: attemptCount given, verdict returned
    raised,         \* the call the handler's error came out of, or "none"
    result          \* the DialogTurnResult returned, or status "error" when the handler threw

\* DialogManager and one conversation's turn
VARIABLES
    manager,        \* the DialogManager's configuration: rootDialogId, conversationState, expireAfter
    storage,        \* the conversation state as persisted between turns
    cached,         \* the conversation state as cached in the turn's context (not loaded: undefined)
    turnState,      \* keys of context.turnState
    lastAccess,     \* onTurn's local `lastAccess', in milliseconds
    pc,             \* the position of onTurn, "idle" between turns
    thrown,         \* the error caught by onTurn's catch clause, or "none"
    turnResult,     \* onTurn's local `turnResult'
    outcome,        \* what the last onTurn gave its caller: a result or an error
    counts,          \* per turn: how often the scopes were loaded, saved and the trace sent
    touched,        \* per turn: the state operations performed so far
    pass,           \* what the last pass of onTurn's loop did
    event,          \* the last emitEvent: the dialogs asked, whether one handled it
    turnLog         \* per turn: the stack read, whether state was cleared, what was driven,
                    \* the instant of its expiry check and of the previous turn's

\* the host: conversations served concurrently by the one manager and prompt
VARIABLES
    conversations,  \* per conversation: its persisted state and its turn context's cache
    inFlight,       \* per conversation: its onTurn call (position, input, clock readings, outcome)
    locals          \* per call frame: onTurn's locals `lastAccess', `dc' and `turnResult'

promptVars == <<settings, stack, ended, turn, activity, adapter, respondedIn, responded,
                sent, calls, path, recognized, timedOut, validated, isValid, validatorCalls,
                raised, result>>

managerVars == <<manager, storage, cached, turnState, lastAccess, pc, thrown, turnResult,
                 outcome, counts, touched, pass, event, turnLog>>

hostVars == <<conversations, inFlight, locals>>

vars == <<now, promptVars, managerVars, hostVars>>

(***************************  bounds  **************************************)

\* the clock is observed at 0..MaxTick and at DefaultTimeout + MaxTick
MaxTick == 1
\* largest attemptCount explored within one activation
MaxAttempts == 2
\* the DialogManager's turns happen at 0..MaxClock
MaxClock == 3
\* deepest dialog stack explored
MaxDepth == 2

(***************************  program constants  ***************************)

DefaultTimeout == 900000
StatusOK == 200
StatusBadRequest == 400
StatusNotFound == 404
StatusConflict == 409
StatusServerError == 500
StatusBadGateway == 502

tokenResponseEventName == "tokens/response"
verifyStateOperationName == "signin/verifyState"
tokenExchangeOperationName == "signin/tokenExchange"
AcceptingInput == "acceptingInput"
oauthCard == "application/vnd.microsoft.card.oauth"
signinCard == "application/vnd.microsoft.card.signin"

(***************************  JavaScript values  ***************************)

UndefinedValue == [kind |-> "undefined"]

IsUndefined(v) == v.kind = "undefined"

\* obj.hasOwnProperty(p)
HasOwnProperty(obj, p) == obj.kind = "object" /\ p \in DOMAIN obj

\* obj[p] of an object: undefined when the property is absent
Get(obj, p) == IF p \in DOMAIN obj THEN obj[p] ELSE "undefined"

Digits == {"0", "1", "2", "3", "4", "5", "6", "7", "8", "9"}

\* /(\d{6})/.exec(text): the leftmost run of six digits, or <<>> when there is none
MatchSixDigits(text) ==
    LET starts == {i \in 1..(Len(text) - 5) : \A j \in i..(i + 5) : text[j] \in Digits}
    IN  IF starts = {} THEN <<>>
        ELSE LET i == CHOOSE s \in starts : \A t \in starts : s <= t
             IN  SubSeq(text, i, i + 5)

(***************************  inputs  **************************************)

ConnectionName == "Contoso"

Code6 == <<"4", "8", "2", "9", "1", "3">>

\* message texts: no digits, a six-digit code inside a sentence, five digits only,
\* and seven digits (the leftmost six are the match)
Hello == <<"h", "e", "l", "l", "o">>
CodeText == <<"c", "o", "d", "e", " ">> \o Code6
FiveDigits == <<"1", "2", "3", "4", "5">>
SevenDigits == <<"9">> \o Code6

\* values the inbound activity may carry
EventToken == [kind |-> "object", token |-> "tokE", connectionName |-> ConnectionName]
VerifyState == [kind |-> "object", state |-> Code6]
ExchangeRequest(c) == [kind |-> "object", id |-> "req1", connectionName |-> c, token |-> "chTok"]
NoTokenRequest(c) == [kind |-> "object", id |-> "req1", connectionName |-> c]

Activity(type, name, text, value) ==
    [type |-> type, name |-> name, text |-> text, value |-> value]

\* the activity a prompt is begun on
BeginActivity == Activity("message", "", <<"h", "i">>, UndefinedValue)

\* context.adapter: the operations it has, its name (community adapters have one)
\* and the channel the activity came through
Adapter(hasGetUserToken, hasExchangeToken, name, channelId) ==
    [hasGetUserToken |-> hasGetUserToken, hasExchangeToken |-> hasExchangeToken,
     name |-> name, channelId |-> channelId]
FullAdapter == Adapter(TRUE, TRUE, "", "emulator")
NoExchangeAdapter == Adapter(TRUE, FALSE, "", "emulator")
NoTokenAdapter == Adapter(FALSE, FALSE, "", "emulator")

\* what the provider and the channel answer during one turn: the outcome of
\* getUserToken, the outcome of exchangeToken, and which sends of the turn fail;
\* getSignInResource answers a resource unless said otherwise
Env(g, x, f) ==
    [getUserToken |-> g, exchangeToken |-> x, sendFails |-> f, getSignInResource |-> "resource"]

\* the same answers with a failing getSignInResource
SignInFails(env) == [env EXCEPT !.getSignInResource = "throw"]

\* one inbound turn: the activity, the adapter, the environment's answers and
\* context.responded on entry
Input(a, ad, env, pre) == [activity |-> a, adapter |-> ad, env |-> env, pre |-> pre]

\* The inputs of continueDialog, one family per kind of activity.  Within a
\* family only the inputs the code can read on that kind of activity vary; the
\* others are pinned (to answers that would show if they were read).  The adapter
\* of a continue turn has getUserToken, as the one the prompt was begun on.

EventInputs ==
    { Input(a, FullAdapter, Env("token", "token", {}), FALSE) :
        a \in { Activity("event", tokenResponseEventName, Code6, EventToken),
                Activity("event", tokenResponseEventName, <<>>, UndefinedValue),
                Activity("event", "other", Code6, EventToken) } }

VerifyInputs ==
    { Input(Activity("invoke", verifyStateOperationName, Code6, VerifyState),
            FullAdapter, Env(g, "token", {}), FALSE) :
        g \in {"token", "none", "throw"} }
    \cup
    { Input(Activity("invoke", verifyStateOperationName, <<>>, VerifyState),
            FullAdapter, Env("token", "token", f), FALSE) :
        f \in {{1}, {1, 2}} }
    \cup
    { Input(Activity("invoke", verifyStateOperationName, <<>>, VerifyState),
            FullAdapter, Env(g, "token", {1}), FALSE) :
        g \in {"none", "throw"} }
    \cup
    { Input(Activity("invoke", verifyStateOperationName, <<>>, UndefinedValue),
            FullAdapter, Env("token", "token", {}), FALSE) }

ExchangeInputs ==
    { Input(Activity("invoke", tokenExchangeOperationName, Code6, v), ad,
            Env("token", "token", {}), FALSE) :
        v \in {NoTokenRequest("Wrong"), ExchangeRequest("Wrong"),
               ExchangeRequest(ConnectionName)},
        ad \in {FullAdapter, NoExchangeAdapter} }
    \cup
    { Input(Activity("invoke", tokenExchangeOperationName, <<>>, v),
            FullAdapter, Env("token", "token", {}), FALSE) :
        v \in {UndefinedValue, NoTokenRequest(ConnectionName)} }
    \cup
    { Input(Activity("invoke", tokenExchangeOperationName, <<>>, ExchangeRequest(ConnectionName)),
            FullAdapter, Env("token", x, {}), FALSE) :
        x \in {"none", "notoken", "throw"} }
    \cup
    { Input(Activity("invoke", tokenExchangeOperationName, <<>>, ExchangeRequest(ConnectionName)),
            ad, Env("token", "token", {1}), FALSE) :
        ad \in {FullAdapter, NoExchangeAdapter} }

OtherInvokeInputs ==
    { Input(Activity("invoke", "other", Code6, ExchangeRequest(ConnectionName)),
            FullAdapter, Env("token", "token", {}), FALSE) }

MessageInputs ==
    { Input(Activity("message", "", Hello, UndefinedValue), FullAdapter,
            Env("token", "token", f), pre) :
        f \in {{}, {1}}, pre \in BOOLEAN }
    \cup
    { Input(Activity("message", "", CodeText, UndefinedValue), FullAdapter,
            Env(g, "token", {}), FALSE) :
        g \in {"token", "none", "throw"} }
    \cup
    { Input(Activity("message", "", FiveDigits, UndefinedValue), FullAdapter,
            Env("token", "token", {}), FALSE),
      Input(Activity("message", "", CodeText, UndefinedValue), FullAdapter,
            Env("none", "token", {}), TRUE),
      Input(Activity("message", "", SevenDigits, UndefinedValue), FullAdapter,
            Env("token", "token", {}), FALSE),
      Input(Activity("message", tokenResponseEventName, CodeText, EventToken), FullAdapter,
            Env("none", "token", {}), FALSE),
      Input(Activity("message", verifyStateOperationName, Hello, VerifyState), FullAdapter,
            Env("token", "token", {}), FALSE) }

ContinueInputs ==
    EventInputs \cup VerifyInputs \cup ExchangeInputs \cup OtherInvokeInputs \cup MessageInputs

NoTimeout == [kind |-> "undefined"]
Timeouts == {NoTimeout, [kind |-> "number", value |-> 0]}

\* an attachment: its content type, the sign-in link it carries, its button's type
Card(contentType, link, actionType) ==
    [contentType |-> contentType, link |-> link, actionType |-> actionType]

NoPrompt == [kind |-> "undefined"]
RetryPrompt == [kind |-> "string", text |-> "retry"]
Prompts ==
    { NoPrompt,
      [kind |-> "object", inputHint |-> "undefined",
       attachments |-> <<Card(oauthCard, "callerLink", "signin")>>],
      [kind |-> "object", inputHint |-> "undefined",
       attachments |-> <<Card(oauthCard, "callerLink", "signin"),
                         Card(oauthCard, "otherLink", "signin")>>] }

\* the options a prompt is begun with
Options ==
    { [prompt |-> p, retryPrompt |-> NoPrompt] : p \in Prompts }
    \cup { [prompt |-> NoPrompt, retryPrompt |-> RetryPrompt] }

\* The inputs of beginDialog: the silent lookup's outcome on every adapter
\* capability, and, when a card is to be sent, every card type and link case
BeginInputs ==
    { Input(BeginActivity, FullAdapter, Env(g, "token", {}), FALSE) :
        g \in {"token", "throw"} }
    \cup
    { Input(BeginActivity, Adapter(TRUE, TRUE, n, c), Env("none", "token", {}), FALSE) :
        n \in {"", "Slack Adapter"}, c \in {"emulator", "msteams"} }
    \cup
    { Input(BeginActivity, FullAdapter, Env("none", "token", {1}), FALSE),
      Input(BeginActivity, FullAdapter, SignInFails(Env("none", "token", {})), FALSE),
      Input(BeginActivity, NoTokenAdapter, Env("token", "token", {}), FALSE) }

\* the instants at which a turn may happen: the first ticks, and the instant that
\* is the default timeout after the last of them (the deadline of a prompt begun
\* then, past the deadline of one begun earlier)
Instants == (0..MaxTick) \cup {DefaultTimeout + MaxTick}

\* the instants a turn may happen at when the clock shows t: time does not go back
Later(t) == {u \in Instants : u >= t}

(***************************  turn context  ********************************)

\* a fresh TurnContext for an inbound activity
NewContext(a, ad, pre) ==
    [activity |-> a, adapter |-> ad, responded |-> pre, sent |-> <<>>, calls |-> <<>>]

\* context.sendActivity(a): the k-th send of the turn fails when k \in env.sendFails;
\* a delivered activity that is not a trace sets context.responded
SendActivity(ctx, env, a) ==
    LET ok == (Len(ctx.sent) + 1) \notin env.sendFails
    IN  [ctx |-> [ctx EXCEPT !.sent = Append(@, [activity |-> a, delivered |-> ok]),
                             !.responded = @ \/ (ok /\ a.type # "trace")],
         threw |-> ~ok]

(***************************  OAuthPrompt helpers  *************************)

NoCode == [kind |-> "undefined"]
StringCode(c) == [kind |-> "string", text |-> c]

\* the TokenResponse the provider holds for a code (or for the silent lookup)
ProviderToken(code) ==
    [kind |-> "object", channelId |-> "ch", connectionName |-> ConnectionName,
     token |-> (IF IsUndefined(code) THEN "tokS" ELSE "tokC"), expiration |-> "exp"]

\* what adapter.exchangeToken returns
ExchangeResponse(env) ==
    CASE env.exchangeToken = "token" ->
            [kind |-> "object", channelId |-> "ch", connectionName |-> ConnectionName,
             token |-> "tokX"]
      [] env.exchangeToken = "notoken" ->
            [kind |-> "object", channelId |-> "ch", connectionName |-> ConnectionName]
      [] OTHER -> UndefinedValue

\* an entry of the provider call log: the operation, the connection name and the
\* code or token it was given, and what the provider answered
Call(op, code, returned) ==
    [op |-> op, connectionName |-> ConnectionName, code |-> code, returned |-> returned]

\* OAuthPrompt.getUserToken(context, code)
GetUserToken(ctx, env, code) ==
    IF ~ctx.adapter.hasGetUserToken
    THEN [ctx |-> ctx, threw |-> TRUE, token |-> UndefinedValue]
    ELSE LET c1 == [ctx EXCEPT !.calls = Append(@, Call("getUserToken", code,
                                                        env.getUserToken))]
         IN  CASE env.getUserToken = "throw" ->
                     [ctx |-> c1, threw |-> TRUE, token |-> UndefinedValue]
               [] env.getUserToken = "token" ->
                     [ctx |-> c1, threw |-> FALSE, token |-> ProviderToken(code)]
               [] OTHER ->
                     [ctx |-> c1, threw |-> FALSE, token |-> UndefinedValue]

\* { type: 'invokeResponse', value: { status } }
InvokeResponse(status) ==
    [type |-> "invokeResponse", status |-> status, id |-> "undefined"]

\* OAuthPrompt.getTokenExchangeInvokeResponse(status, failureDetail, id)
GetTokenExchangeInvokeResponseWithoutId(status, id) ==
    [type |-> "invokeResponse", status |-> status, id |-> "undefined"]

GetTokenExchangeInvokeResponse(status, id) ==
    [type |-> "invokeResponse", status |-> status, id |-> id]

IsTokenResponseEvent(a) == a.type = "event" /\ a.name = tokenResponseEventName

IsTeamsVerificationInvokeAnyName(a) == a.type = "invoke"

IsTeamsVerificationInvoke(a) == a.type = "invoke" /\ a.name = verifyStateOperationName

IsTokenExchangeRequestInvoke(a) == a.type = "invoke" /\ a.name = tokenExchangeOperationName

IsTokenExchangeRequestAny(obj) == TRUE

IsTokenExchangeRequest(obj) == HasOwnProperty(obj, "token")

\* the result of recognizeToken's branches: the context after the branch, whether
\* it threw, the token it set and the recognition path it was
Branch(ctx, threw, token, p) == [ctx |-> ctx, threw |-> threw, token |-> token, path |-> {p}]

\* recognizeToken, branch `else if (this.isTeamsVerificationInvoke(context))'
RecognizeVerification(ctx, env) ==
    IF IsUndefined(ctx.activity.value)
    THEN \* context.activity.value.state of an undefined value: TypeError, outside the try
         Branch(ctx, TRUE, UndefinedValue, "verification")
    ELSE LET code == IF "state" \in DOMAIN ctx.activity.value
                     THEN StringCode(ctx.activity.value.state) ELSE NoCode
             g == GetUserToken(ctx, env, code)
             first == SendActivity(g.ctx, env,
                          InvokeResponse(IF IsUndefined(g.token) THEN StatusNotFound
                                                                 ELSE StatusOK))
             \* catch (e): the provider call or the first send threw
             caught == SendActivity(IF g.threw THEN g.ctx ELSE first.ctx, env,
                                    InvokeResponse(StatusServerError))
         IN  IF ~g.threw /\ ~first.threw
             THEN Branch(first.ctx, FALSE, g.token, "verification")
             ELSE Branch(caught.ctx, caught.threw,
                         IF g.threw THEN UndefinedValue ELSE g.token, "verification")

\* recognizeToken, branch `else if (!('exchangeToken' in context.adapter))': reply
\* 502, then throw
UnsupportedAdapterSwallowed(ctx, env) ==
    LET s == SendActivity(ctx, env,
                 GetTokenExchangeInvokeResponse(StatusBadGateway, "undefined"))
    IN  Branch(s.ctx, s.threw, UndefinedValue, "exchange")

UnsupportedAdapter(ctx, env) ==
    LET s == SendActivity(ctx, env,
                 GetTokenExchangeInvokeResponse(StatusBadGateway, "undefined"))
    IN  Branch(s.ctx, TRUE, UndefinedValue, "exchange")

\* the TokenResponse recognizeToken builds from a token exchange response
ExchangedToken(resp) ==
    [kind |-> "object", channelId |-> resp.channelId, connectionName |-> resp.connectionName,
     token |-> resp.token, expiration |-> "null"]

\* recognizeToken, branch `else if (this.isTokenExchangeRequestInvoke(context))'
RecognizeExchange(ctx, env) ==
    LET v == ctx.activity.value
    IN  IF ~(~IsUndefined(v) /\ IsTokenExchangeRequest(v))
        THEN LET s == SendActivity(ctx, env,
                          GetTokenExchangeInvokeResponse(StatusBadRequest, "undefined"))
             IN  Branch(s.ctx, s.threw, UndefinedValue, "exchange")
        ELSE IF Get(v, "connectionName") # ConnectionName
        THEN LET s == SendActivity(ctx, env,
                          GetTokenExchangeInvokeResponse(StatusBadRequest, "undefined"))
             IN  Branch(s.ctx, s.threw, UndefinedValue, "exchange")
        ELSE IF ~ctx.adapter.hasExchangeToken
        THEN UnsupportedAdapter(ctx, env)
        ELSE LET c1 == [ctx EXCEPT !.calls = Append(@, Call("exchangeToken",
                                  StringCode(<<Get(v, "token")>>), env.exchangeToken))]
                 resp == ExchangeResponse(env)
             IN  IF env.exchangeToken = "throw"
                 THEN Branch(c1, TRUE, UndefinedValue, "exchange")
                 ELSE IF IsUndefined(resp) \/ ~HasOwnProperty(resp, "token")
                 THEN LET s == SendActivity(c1, env,
                                   GetTokenExchangeInvokeResponse(StatusConflict, "undefined"))
                      IN  Branch(s.ctx, s.threw, UndefinedValue, "exchange")
                 ELSE LET s == SendActivity(c1, env,
                                   GetTokenExchangeInvokeResponse(StatusOK, Get(v, "id")))
                      IN  Branch(s.ctx, s.threw,
                                 IF s.threw THEN UndefinedValue ELSE ExchangedToken(resp),
                                 "exchange")

\* recognizeToken, branch `else if (context.activity.type === ActivityTypes.Message)'
RecognizeMessage(ctx, env) ==
    LET matched == MatchSixDigits(ctx.activity.text)
    IN  IF matched # <<>>
        THEN LET g == GetUserToken(ctx, env, StringCode(matched))
             IN  Branch(g.ctx, g.threw, g.token, "message")
        ELSE [ctx |-> ctx, threw |-> FALSE, token |-> UndefinedValue, path |-> {}]

\* OAuthPrompt.recognizeToken(context): the four paths in priority order; the
\* result carries the PromptRecognizerResult in `succeeded' and `value'
RecognizeToken(ctx, env) ==
    LET b == IF IsTokenResponseEvent(ctx.activity)
             THEN Branch(ctx, FALSE, ctx.activity.value, "event")
             ELSE IF IsTeamsVerificationInvoke(ctx.activity)
             THEN RecognizeVerification(ctx, env)
             ELSE IF IsTokenExchangeRequestInvoke(ctx.activity)
             THEN RecognizeExchange(ctx, env)
             ELSE IF ctx.activity.type = "message"
             THEN RecognizeMessage(ctx, env)
             ELSE [ctx |-> ctx, threw |-> FALSE, token |-> UndefinedValue, path |-> {}]
    IN  [ctx |-> b.ctx, threw |-> b.threw, path |-> b.path,
         succeeded |-> ~b.threw /\ ~IsUndefined(b.token),
         value |-> IF b.threw THEN UndefinedValue ELSE b.token]

(***************************  dialog stack  ********************************)

NoInstance == [id |-> "none"]
OAuthPromptId == "OAuthPrompt"

\* the private state object of a freshly pushed instance
NewInstanceState == [kind |-> "object"]

\* dc.endDialog(value) with no parent below: pops the instance; the turn completes
EndDialog(stk, value) ==
    [stack |-> SubSeq(stk, 1, Len(stk) - 1), ended |-> stk[Len(stk)],
     result |-> [status |-> "complete", value |-> value]]

\* Dialog.EndOfTurn
EndOfTurn == [status |-> "waiting", value |-> UndefinedValue]

\* the handler threw
Thrown == [status |-> "error", value |-> UndefinedValue]

(***************************  beginDialog  *********************************)

\* `typeof x.inputHint !== 'string'' of beginDialog: ensure the input hint is set
EnsureInputHint(p) ==
    IF p.kind = "object" /\ p.inputHint = "undefined"
    THEN [p EXCEPT !.inputHint = AcceptingInput] ELSE p

\* OAuthPrompt.channelSupportsOAuthCard(channelId)
ChannelSupportsOAuthCard(channelId) ==
    channelId \notin {"msteams", "cortana", "skype", "skypeforbusiness"}

\* OAuthPrompt.isOAuthCardSupported(context)
IsOAuthCardSupported(ctx) ==
    IF ctx.adapter.name \in {"Facebook Adapter", "Google Hangouts Adapter", "Slack Adapter",
                             "Twilio SMS Adapter", "Web Adapter", "Webex Adapter", "Botkit CMS"}
    THEN FALSE
    ELSE ChannelSupportsOAuthCard(ctx.adapter.channelId)

\* `msg.attachments.filter(a => a.contentType === <the channel's card type>)'
LoginCardsOfAnyType(attachments, wanted) == 1..Len(attachments)

LoginCards(attachments, wanted) ==
    {i \in 1..Len(attachments) : attachments[i].contentType = wanted}

\* OAuthPrompt.sendOAuthCardAsync(context, prompt); useLink is the condition
\* `skill claim, streaming connection or extra credentials' of the sign-in link
SendOAuthCardAsync(ctx, env, prompt, useLink) ==
    IF ~ctx.adapter.hasGetUserToken
    THEN [ctx |-> ctx, threw |-> TRUE]
    ELSE LET attachments == IF prompt.kind = "object" THEN prompt.attachments ELSE <<>>
             hint == IF prompt.kind = "object" THEN prompt.inputHint ELSE AcceptingInput
             wanted == IF IsOAuthCardSupported(ctx) THEN oauthCard ELSE signinCard
             cards == LoginCards(attachments, wanted)
             c1 == [ctx EXCEPT !.calls = Append(@, Call("getSignInResource", NoCode,
                                                        env.getSignInResource))]
             card == IF wanted = oauthCard
                     THEN Card(oauthCard,
                               IF useLink THEN "signInLink" ELSE "undefined",
                               IF useLink /\ ctx.adapter.channelId = "emulator"
                               THEN "openUrl" ELSE "signin")
                     ELSE Card(signinCard, "signInLink", "signin")
             msg == [type |-> "message", inputHint |-> hint,
                     attachments |-> IF cards = {} THEN Append(attachments, card)
                                                   ELSE attachments]
         IN  IF cards = {} /\ env.getSignInResource = "throw"
             THEN [ctx |-> c1, threw |-> TRUE]
             ELSE SendActivity(IF cards = {} THEN c1 ELSE ctx, env, msg)

\* `output !== undefined' of beginDialog
HasOutputInverted(token) == IsUndefined(token)

HasOutput(token) == ~IsUndefined(token)

\* OAuthPrompt.beginDialog(dc, options) on the instance dc.beginDialog() has pushed:
\* the instance state it leaves, the context, and the result (or that it threw)
OAuthBeginDialog(ctx, env, options, useLink, t) ==
    LET o == [prompt |-> EnsureInputHint(options.prompt),
              retryPrompt |-> EnsureInputHint(options.retryPrompt)]
        timeout == IF settings.timeout.kind = "number" THEN settings.timeout.value
                                                       ELSE DefaultTimeout
        state == [kind |-> "object", state |-> NewInstanceState, options |-> o,
                  expires |-> t + timeout]
        output == GetUserToken(ctx, env, NoCode)
        card == SendOAuthCardAsync(output.ctx, env, o.prompt, useLink)
    IN  IF output.threw
        THEN [ctx |-> output.ctx, state |-> state, threw |-> "getUserToken", done |-> FALSE,
              value |-> UndefinedValue]
        ELSE IF HasOutput(output.token)
        THEN [ctx |-> output.ctx, state |-> state, threw |-> "none", done |-> TRUE,
              value |-> output.token]
        ELSE [ctx |-> card.ctx, state |-> state,
              threw |-> IF card.threw THEN "sendOAuthCardAsync" ELSE "none",
              done |-> FALSE, value |-> UndefinedValue]

BeginDialog ==
    /\ stack = <<>>
    /\ \E t \in Later(now), in \in BeginInputs, options \in Options, useLink \in BOOLEAN :
          /\ \E r \in {OAuthBeginDialog(NewContext(in.activity, in.adapter, in.pre), in.env,
                                         options, useLink, t)} :
             LET pushed == Append(stack, [id |-> OAuthPromptId, state |-> r.state])
                 e == EndDialog(pushed, r.value)
             IN  /\ now' = t
                 /\ turn' = "begin"
                 /\ activity' = in.activity
                 /\ adapter' = in.adapter
                 /\ respondedIn' = in.pre
                 /\ responded' = r.ctx.responded
                 /\ sent' = r.ctx.sent
                 /\ calls' = r.ctx.calls
                 /\ path' = {}
                 /\ recognized' = [succeeded |-> FALSE, value |-> UndefinedValue]
                 /\ timedOut' = FALSE
                 /\ validated' = FALSE
                 /\ isValid' = FALSE
                 /\ validatorCalls' = <<>>
                 /\ raised' = r.threw
                 /\ IF r.done
                    THEN /\ stack' = e.stack
                         /\ ended' = e.ended
                         /\ result' = e.result
                    ELSE /\ stack' = pushed
                         /\ ended' = NoInstance
                         /\ result' = IF r.threw # "none" THEN Thrown ELSE EndOfTurn
    /\ UNCHANGED <<settings, managerVars, hostVars>>

(***************************  continueDialog  ******************************)

\* state.state['attemptCount'], 0 when it is still undefined (lines 188-190)
AttemptCount(state) ==
    IF "attemptCount" \in DOMAIN state.state THEN state.state.attemptCount ELSE 0

\* `hasTimedOut' of continueDialog
HasTimedOutAnyType(a, t, state) == t > state.expires

HasTimedOutAtDeadline(a, t, state) == a.type = "message" /\ t >= state.expires

HasTimedOut(a, t, state) == a.type = "message" /\ t > state.expires

\* `++state.state['attemptCount']'
IncrementTwice(count) == count + 2

Increment(count) == count + 1

\* isValid: the validator's verdict, or recognized.succeeded when there is none
IsValidIgnoringVerdict(hasValidator, verdict, succeeded) == succeeded

IsValid(hasValidator, verdict, succeeded) == IF hasValidator THEN verdict ELSE succeeded

\* the retry prompt condition of continueDialog
ShouldRetryAlways(ctx, state) ==
    ctx.activity.type = "message" /\ ~IsUndefined(state.options.retryPrompt)

ShouldRetry(ctx, state) ==
    ~ctx.responded /\ ctx.activity.type = "message" /\ ~IsUndefined(state.options.retryPrompt)

\* the instance state once the validator has been given ++attemptCount (with no
\* validator the count is only initialised)
Counted(state) ==
    [state EXCEPT !.state = [kind |-> "object", attemptCount |->
        IF settings.hasValidator THEN Increment(AttemptCount(state))
                                 ELSE AttemptCount(state)]]

\* continueDialog, branch `if (hasTimedOut)': end with undefined, nothing else
TimedOutTurnCounted(base, state) ==
    [base EXCEPT !.timedOut = TRUE, !.done = TRUE, !.state = Counted(state),
                 !.validated = settings.hasValidator]

TimedOutTurn(base, state) == [base EXCEPT !.timedOut = TRUE, !.done = TRUE]

\* continueDialog when `await this.recognizeToken(dc.context)' throws: the error
\* leaves the handler at line 178, before the state is touched
RecognitionThrewAfterCounting(base, state) ==
    [base EXCEPT !.threw = "recognizeToken", !.state = Counted(state)]

RecognitionThrew(base, state) == [base EXCEPT !.threw = "recognizeToken"]

\* OAuthPrompt.continueDialog(dc) on the active instance's state; verdict is what
\* the validator (if any) returns in this turn
OAuthContinueDialog(ctx, env, state, verdict, t) ==
    LET r == RecognizeToken(ctx, env)
        rec == [succeeded |-> r.succeeded, value |-> r.value]
        valid == IsValid(settings.hasValidator, verdict, r.succeeded)
        retry == SendActivity(r.ctx, env,
                     [type |-> "message", inputHint |-> AcceptingInput,
                      attachments |-> <<>>, text |-> state.options.retryPrompt.text])
        base == [ctx |-> r.ctx, state |-> state, path |-> r.path, recognized |-> rec,
                 threw |-> "none", done |-> FALSE, value |-> UndefinedValue,
                 timedOut |-> FALSE, validated |-> FALSE, isValid |-> FALSE]
        validating == [base EXCEPT !.state = Counted(state),
                                   !.validated = settings.hasValidator]
    IN  IF r.threw
        THEN RecognitionThrew(base, state)
        ELSE IF HasTimedOut(ctx.activity, t, state)
        THEN TimedOutTurn(base, state)
        ELSE IF valid
        THEN [validating EXCEPT !.isValid = TRUE, !.done = TRUE, !.value = r.value]
        ELSE IF ShouldRetry(r.ctx, state)
        THEN [validating EXCEPT !.ctx = retry.ctx,
                                !.threw = IF retry.threw THEN "sendActivity" ELSE "none"]
        ELSE validating

ContinueDialog ==
    /\ stack # <<>>
    /\ AttemptCount(stack[Len(stack)].state) < MaxAttempts
    /\ \E t \in Later(now), in \in ContinueInputs,
          verdict \in (IF settings.hasValidator THEN BOOLEAN ELSE {FALSE}) :
          /\ \E r \in {OAuthContinueDialog(NewContext(in.activity, in.adapter, in.pre),
                                            in.env, stack[Len(stack)].state, verdict, t)} :
             LET updated == [stack EXCEPT ![Len(stack)].state = r.state]
                 e == EndDialog(updated, r.value)
             IN  /\ now' = t
                 /\ turn' = "continue"
                 /\ activity' = in.activity
                 /\ adapter' = in.adapter
                 /\ respondedIn' = in.pre
                 /\ responded' = r.ctx.responded
                 /\ sent' = r.ctx.sent
                 /\ calls' = r.ctx.calls
                 /\ path' = r.path
                 /\ recognized' = r.recognized
                 /\ timedOut' = r.timedOut
                 /\ validated' = r.validated
                 /\ isValid' = r.isValid
                 /\ raised' = r.threw
                 /\ validatorCalls' = IF r.validated
                                      THEN Append(validatorCalls,
                                                  [attemptCount |-> AttemptCount(r.state),
                                                   returned |-> verdict])
                                      ELSE validatorCalls
                 /\ IF r.done
                    THEN /\ stack' = e.stack
                         /\ ended' = e.ended
                         /\ result' = e.result
                    ELSE /\ stack' = updated
                         /\ ended' = NoInstance
                         /\ result' = IF r.threw # "none" THEN Thrown ELSE EndOfTurn
    /\ UNCHANGED <<settings, managerVars, hostVars>>

(***************************  specification  *******************************)

Settings == [timeout : Timeouts, hasValidator : BOOLEAN]

(***************************  DialogManager, configured  *******************)

LAST_ACCESS == "_lastAccess"
DIALOGS == "_dialogs"

\* the id of the root dialog of a configured manager
RootDialogId == "root"

\* a DialogManager: rootDialogId (undefined until a root dialog is set), whether
\* conversationState is set, and expireAfter (undefined or a number)
Manager(rootDialogId, conversationState, expireAfter) ==
    [rootDialogId |-> rootDialogId, conversationState |-> conversationState,
     expireAfter |-> expireAfter]

\* an object without properties: the state of a new or cleared conversation
EmptyObject == [kind |-> "object"]

\* onTurn's observations before a turn has done anything
NoTurnResult == [status |-> "none"]
NoOutcome == [kind |-> "none"]
NoCount == [load |-> 0, save |-> 0, trace |-> 0]
NoPass == [continued |-> 0, status |-> "none", begun |-> FALSE]
NoEvent == [asked |-> <<>>, handlers |-> {}, handled |-> FALSE]
\* no instant: no expiry check has been made
NoInstant == -1
NewTurnLog ==
    [entry |-> <<>>, cleared |-> FALSE, begun |-> FALSE, emptySeen |-> FALSE,
     continued |-> {}, handled |-> FALSE, at |-> NoInstant, previous |-> NoInstant]

\* no turn is in flight and none has been
ManagerAtRest ==
    /\ cached = UndefinedValue
    /\ turnState = {}
    /\ lastAccess = 0
    /\ pc = "idle"
    /\ thrown = "none"
    /\ turnResult = NoTurnResult
    /\ outcome = NoOutcome
    /\ counts = NoCount
    /\ touched = {}
    /\ pass = NoPass
    /\ event = NoEvent
    /\ turnLog = NewTurnLog

\* the prompt before its first turn
PromptAtRest ==
    /\ stack = <<>>
    /\ ended = NoInstance
    /\ turn = "none"
    /\ activity = BeginActivity
    /\ adapter = FullAdapter
    /\ respondedIn = FALSE
    /\ responded = FALSE
    /\ sent = <<>>
    /\ calls = <<>>
    /\ path = {}
    /\ recognized = [succeeded |-> FALSE, value |-> UndefinedValue]
    /\ timedOut = FALSE
    /\ validated = FALSE
    /\ isValid = FALSE
    /\ validatorCalls = <<>>
    /\ raised = "none"
    /\ result = [status |-> "none", value |-> UndefinedValue]

\* the conversations the host serves
Conversations == {1, 2}

\* onTurn's locals before they are assigned
NoLocals == [lastAccess |-> 0, dc |-> 0, turnResult |-> NoTurnResult]

\* no onTurn call has been made for the conversation
NoCall ==
    [pc |-> "idle", input |-> [kind |-> "none"], reads |-> <<>>, entry |-> EmptyObject,
     outcome |-> NoOutcome, turns |-> 0]

\* no conversation has had a turn
HostAtRest ==
    /\ conversations = [c \in Conversations |->
                            [storage |-> EmptyObject, cached |-> UndefinedValue]]
    /\ inFlight = [c \in Conversations |-> NoCall]
    /\ locals = [f \in Conversations |-> NoLocals]

Init ==
    /\ settings \in Settings
    /\ now = 0
    /\ PromptAtRest
    /\ manager = Manager(RootDialogId, TRUE, UndefinedValue)
    /\ storage = EmptyObject
    /\ ManagerAtRest
    /\ HostAtRest

Next == BeginDialog \/ ContinueDialog

Spec == Init /\ [][Next]_vars

(***************************  conversation state  **************************)

\* Date.prototype.toISOString(): the instant, to the millisecond
ToISOString(t) == [kind |-> "string", iso |-> t]

\* new Date(isoString).getTime()
ParseDate(str) == str.iso

\* obj[p] = v
SetProperty(obj, p, v) == (p :> v) @@ obj

\* BotState.load(context): the turn's cache is read from storage once per turn
Load(cache, stored) == IF IsUndefined(cache) THEN stored ELSE cache

\* property.get(context, defaultValue): the stored value; when there is none the
\* default is stored and returned
GetProperty(state, p, defaultValue) ==
    IF p \in DOMAIN state
    THEN [state |-> state, value |-> state[p]]
    ELSE [state |-> SetProperty(state, p, defaultValue), value |-> defaultValue]

\* BotState.clear(context): the cached state becomes an empty object
Clear(state) == EmptyObject

\* a DialogInstance; `fresh' tells the instances pushed in the current turn from
\* those read from the conversation state
Instance(id) == [id |-> id, fresh |-> TRUE]

\* the instances of a state read at the start of a turn are not of this turn
Stale(state) ==
    IF DIALOGS \in DOMAIN state
    THEN SetProperty(state, DIALOGS,
             [state[DIALOGS] EXCEPT !.dialogStack =
                 [i \in 1..Len(@) |-> [@[i] EXCEPT !.fresh = FALSE]]])
    ELSE state

\* new DialogContext(dialogs, context, state): a state without a stack gets one
WithDialogStack(dialogState) ==
    IF "dialogStack" \in DOMAIN dialogState THEN dialogState
    ELSE SetProperty(dialogState, "dialogStack", <<>>)

\* dc.stack, once the DialogContext exists
DcStack == cached[DIALOGS].dialogStack

(***************************  dialogs and events  **************************)

\* what the root dialog may do when it is begun: wait, complete at once, throw,
\* or begin a child that waits
BeginOutcomes(stk) ==
    {"waiting", "complete", "throw"}
    \cup (IF Len(stk) + 2 <= MaxDepth THEN {"child"} ELSE {})

\* what may happen when the stack is continued: the active dialog waits, begins a
\* child that waits, ends (its parent, if any, then waits), ends with all its
\* parents, throws, or an interruption cancels every dialog before any continues
ContinueOutcomes(stk) ==
    {"waiting", "end", "endAll", "cancelled", "throw"}
    \cup (IF Len(stk) < MaxDepth THEN {"child"} ELSE {})

\* dc.beginDialog(id): push a new instance, then run the dialog's beginDialog
DcBeginDialog(stk, id, out) ==
    LET pushed == Append(stk, Instance(id))
    IN  CASE out = "waiting" ->
                [stack |-> pushed, threw |-> FALSE, error |-> "none",
                 result |-> [status |-> "waiting"]]
          [] out = "child" ->
                [stack |-> Append(pushed, Instance("child")), threw |-> FALSE,
                 error |-> "none", result |-> [status |-> "waiting"]]
          [] out = "complete" ->
                [stack |-> stk, threw |-> FALSE, error |-> "none",
                 result |-> [status |-> "complete"]]
          [] OTHER ->
                [stack |-> pushed, threw |-> TRUE, error |-> "beginError",
                 result |-> NoTurnResult]

\* dc.continueDialog(): only the active (top) instance is continued; with no
\* active dialog the status is empty
DcContinueDialog(stk, out) ==
    LET r(s, status) == [stack |-> s, threw |-> FALSE, error |-> "none",
                         result |-> [status |-> status],
                         continued |-> {[index |-> Len(stk), id |-> stk[Len(stk)].id,
                                         fresh |-> stk[Len(stk)].fresh]}]
        popped == SubSeq(stk, 1, Len(stk) - 1)
    IN  CASE stk = <<>> \/ out = "cancelled" ->
                [stack |-> <<>>, threw |-> FALSE, error |-> "none",
                 result |-> [status |-> "empty"], continued |-> {}]
          [] out = "waiting" -> r(stk, "waiting")
          [] out = "child" -> r(Append(stk, Instance("child")), "waiting")
          [] out = "end" -> r(popped, IF popped = <<>> THEN "complete" ELSE "waiting")
          [] out = "endAll" -> r(<<>>, "complete")
          [] OTHER -> [r(stk, "none") EXCEPT !.threw = TRUE, !.error = "continueError",
                                             !.result = NoTurnResult]

\* dc.emitEvent(name, value, bubble, fromLeaf): the dialogs are asked from the
\* leaf towards the root until one handles the event; without bubbling only the
\* first is asked.  handlers: the stack positions whose dialog would handle it
DcEmitEvent(stk, handlers, bubble, fromLeaf) ==
    LET leaf == Len(stk)
        reach == IF bubble THEN 1..leaf ELSE {leaf}
        takers == handlers \cap reach
        last == IF takers = {} THEN (IF bubble THEN 1 ELSE leaf)
                ELSE CHOOSE h \in takers : \A g \in takers : g <= h
    IN  [asked |-> [k \in 1..(leaf - last + 1) |-> leaf - k + 1],
         handlers |-> handlers,
         handled |-> takers # {}]

(***************************  DialogManager.onTurn  ************************)

\* `Ensure properly configured': the error onTurn throws, or "none"
ConfigurationErrorRootOnly(m) ==
    IF m.rootDialogId = "undefined" THEN "rootDialog not configured" ELSE "none"

ConfigurationError(m) ==
    IF m.rootDialogId = "undefined" THEN "rootDialog not configured"
    ELSE IF ~m.conversationState THEN "conversationState not configured"
    ELSE "none"

\* DialogManager.initialTurnState: the constructor sets the dialogManager entry
InitialTurnState == {"dialogManager"}

\* `for (const key in this.initialTurnState.keys())': for...in visits the
\* enumerable string-keyed properties of the iterator object keys() returns, not
\* the keys it would yield; a Map iterator has no such properties
ForInKeys(map) == {}

\* `this.expireAfter != undefined && (now - lastAccess) >= this.expireAfter'
IsExpiredStrictlyLater(expireAfter, t, accessed) ==
    ~IsUndefined(expireAfter) /\ (t - accessed) > expireAfter.value

IsExpired(expireAfter, t, accessed) ==
    ~IsUndefined(expireAfter) /\ (t - accessed) >= expireAfter.value

\* `if (turnResult.status == DialogTurnStatus.empty)'
ShouldBeginRootWhenDone(status) == status \in {"empty", "complete"}

ShouldBeginRoot(status) == status = "empty"

\* one pass of the body of `try' in onTurn's loop
DrivePass(stk, outC, outB) ==
    IF stk # <<>>
    THEN LET c == DcContinueDialog(stk, outC)
             b == DcBeginDialog(c.stack, RootDialogId, outB)
         IN  IF ~c.threw /\ ShouldBeginRoot(c.result.status)
             THEN [stack |-> b.stack, threw |-> b.threw, error |-> b.error,
                   result |-> b.result, continued |-> c.continued,
                   pass |-> [continued |-> Len(stk), status |-> c.result.status,
                             begun |-> TRUE]]
             ELSE [stack |-> c.stack, threw |-> c.threw, error |-> c.error,
                   result |-> c.result, continued |-> c.continued,
                   pass |-> [continued |-> Len(stk), status |-> c.result.status,
                             begun |-> FALSE]]
    ELSE LET b == DcBeginDialog(stk, RootDialogId, outB)
         IN  [stack |-> b.stack, threw |-> b.threw, error |-> b.error,
              result |-> b.result, continued |-> {},
              pass |-> [continued |-> 0, status |-> "none", begun |-> TRUE]]

\* the arguments `bubble' and `fromLeaf' of onTurn's emitEvent
ErrorEventBubbles == TRUE
ErrorEventFromLeaf == TRUE

\* `if (!handled) { throw err; }'
RethrowsNever(handled) == FALSE

Rethrows(handled) == ~handled

\* where onTurn goes once its loop is left
AfterLoopSkippingSave == "sendTrace"

AfterLoop == "saveAllChanges"

\* the instants the manager's clock may show when it showed t before
LaterDM(t) == {u \in 0..MaxClock : u >= t}

\* onTurn is called: lines 105-117, up to the read of the last access time
OnTurn ==
    /\ pc = "idle"
    /\ \E t \in LaterDM(now) :
          /\ now' = t
          /\ thrown' = "none"
          /\ turnResult' = NoTurnResult
          /\ counts' = NoCount
          /\ pass' = NoPass
          /\ event' = NoEvent
          /\ turnLog' = [NewTurnLog EXCEPT !.previous = turnLog.at]
          /\ IF ConfigurationError(manager) # "none"
             THEN /\ outcome' = [kind |-> "raised", error |-> ConfigurationError(manager)]
                  /\ pc' = "idle"
                  /\ cached' = UndefinedValue
                  /\ turnState' = {}
                  /\ touched' = {}
                  /\ UNCHANGED lastAccess
             ELSE \E g \in {GetProperty(Stale(Load(UndefinedValue, storage)), LAST_ACCESS,
                                        ToISOString(t))} :
                     /\ outcome' = [kind |-> "pending"]
                     /\ turnState' = ForInKeys(InitialTurnState)
                     /\ cached' = g.state
                     /\ lastAccess' = ParseDate(g.value)
                     /\ touched' = {"get " \o LAST_ACCESS}
                     /\ pc' = "checkExpired"
    /\ UNCHANGED <<manager, storage, promptVars, hostVars>>

\* lines 119-124: `Check for expired conversation'
CheckExpired ==
    /\ pc = "checkExpired"
    /\ \E t \in LaterDM(now) :
          /\ now' = t
          /\ IF IsExpired(manager.expireAfter, t, lastAccess)
             THEN /\ cached' = Clear(cached)
                  /\ touched' = touched \cup {"clear"}
                  /\ turnLog' = [turnLog EXCEPT !.cleared = TRUE, !.at = t]
             ELSE /\ turnLog' = [turnLog EXCEPT !.at = t]
                  /\ UNCHANGED <<cached, touched>>
    /\ pc' = "setLastAccess"
    /\ UNCHANGED <<manager, storage, turnState, lastAccess, thrown, turnResult, outcome,
                   counts, pass, event, promptVars, hostVars>>

\* lines 126-127: `Update last access time'
SetLastAccess ==
    /\ pc = "setLastAccess"
    /\ cached' = SetProperty(cached, LAST_ACCESS, ToISOString(lastAccess))
    /\ touched' = touched \cup {"set " \o LAST_ACCESS}
    /\ pc' = "getDialogs"
    /\ UNCHANGED <<now, manager, storage, turnState, lastAccess, thrown, turnResult, outcome,
                   counts, pass, event, turnLog, promptVars, hostVars>>

\* lines 129-135: `get dialog stack' and `Create DialogContext'
GetDialogs ==
    /\ pc = "getDialogs"
    /\ \E g \in {GetProperty(cached, DIALOGS, EmptyObject)} :
          /\ cached' = SetProperty(g.state, DIALOGS, WithDialogStack(g.value))
          /\ turnLog' = [turnLog EXCEPT !.entry = WithDialogStack(g.value).dialogStack]
    /\ touched' = touched \cup {"get " \o DIALOGS}
    /\ pc' = "loadAllScopes"
    /\ UNCHANGED <<now, manager, storage, turnState, lastAccess, thrown, turnResult, outcome,
                   counts, pass, event, promptVars, hostVars>>

\* lines 137-140: `Configure dialog state manager and load scopes'
LoadAllScopes ==
    /\ pc = "loadAllScopes"
    /\ counts' = [counts EXCEPT !.load = @ + 1]
    /\ pc' = "drive"
    /\ UNCHANGED <<now, manager, storage, cached, turnState, lastAccess, thrown, turnResult,
                   outcome, touched, pass, event, turnLog, promptVars, hostVars>>

\* lines 143-156: one pass of the loop's try block
Drive ==
    /\ pc = "drive"
    /\ \E outC \in ContinueOutcomes(DcStack), outB \in BeginOutcomes(<<>>) :
          \E r \in {DrivePass(DcStack, outC, outB)} :
             /\ cached' = SetProperty(cached, DIALOGS,
                              [cached[DIALOGS] EXCEPT !.dialogStack = r.stack])
             /\ pass' = r.pass
             /\ turnLog' = [turnLog EXCEPT !.begun = @ \/ r.pass.begun,
                                           !.emptySeen = @ \/ r.pass.status = "empty",
                                           !.continued = @ \cup r.continued]
             /\ IF r.threw
                THEN /\ thrown' = r.error
                     /\ pc' = "emitEvent"
                     /\ UNCHANGED turnResult
                ELSE /\ thrown' = "none"
                     /\ pc' = AfterLoop
                     /\ turnResult' = r.result
    /\ UNCHANGED <<now, manager, storage, turnState, lastAccess, outcome, counts, touched,
                   event, promptVars, hostVars>>

\* lines 157-162: the catch clause
EmitEvent ==
    /\ pc = "emitEvent"
    /\ \E handlers \in SUBSET (1..Len(DcStack)) :
          \E e \in {DcEmitEvent(DcStack, handlers, ErrorEventBubbles, ErrorEventFromLeaf)} :
             /\ event' = e
             /\ turnLog' = [turnLog EXCEPT !.handled = @ \/ e.handled]
             /\ IF Rethrows(e.handled)
                THEN /\ outcome' = [kind |-> "raised", error |-> thrown]
                     /\ pc' = "idle"
                     /\ UNCHANGED thrown
                ELSE /\ thrown' = "none"
                     /\ pc' = "drive"
                     /\ UNCHANGED outcome
    /\ UNCHANGED <<now, manager, storage, cached, turnState, lastAccess, turnResult, counts,
                   touched, pass, promptVars, hostVars>>

\* lines 165-166: `Save any memory changes'
SaveAllChanges ==
    /\ pc = "saveAllChanges"
    /\ storage' = cached
    /\ counts' = [counts EXCEPT !.save = @ + 1]
    /\ pc' = "sendTrace"
    /\ UNCHANGED <<now, manager, cached, turnState, lastAccess, thrown, turnResult, outcome,
                   touched, pass, event, turnLog, promptVars, hostVars>>

\* lines 168-178: `Send trace of memory to emulator', then return
SendTrace ==
    /\ pc = "sendTrace"
    /\ counts' = [counts EXCEPT !.trace = @ + 1]
    /\ outcome' = [kind |-> "returned", turnResult |-> turnResult]
    /\ pc' = "idle"
    /\ UNCHANGED <<now, manager, storage, cached, turnState, lastAccess, thrown, turnResult,
                   touched, pass, event, turnLog, promptVars, hostVars>>

\* the managers: with and without root dialog and conversation state, without
\* expiry, expiring at once and expiring ExpireAfter ms after the last access
ExpireAfter == 2
Managers ==
    { Manager(r, c, e) :
        r \in {RootDialogId, "undefined"}, c \in BOOLEAN,
        e \in {UndefinedValue, [kind |-> "number", value |-> 0],
               [kind |-> "number", value |-> ExpireAfter]} }

InitDM ==
    /\ settings = [timeout |-> NoTimeout, hasValidator |-> FALSE]
    /\ now = 0
    /\ PromptAtRest
    /\ manager \in Managers
    /\ storage = EmptyObject
    /\ ManagerAtRest
    /\ HostAtRest

\* the steps of a turn in flight
TurnStep ==
    \/ CheckExpired
    \/ SetLastAccess
    \/ GetDialogs
    \/ LoadAllScopes
    \/ Drive
    \/ EmitEvent
    \/ SaveAllChanges
    \/ SendTrace

NextDM == OnTurn \/ TurnStep

SpecDM == InitDM /\ [][NextDM]_vars

\* onTurn is one async function: once called, its next step is eventually run
SpecDMFair == SpecDM /\ WF_vars(TurnStep)

(***************************  concurrent conversations  ********************)

\* The host serves two conversations with the one DialogManager and the one
\* OAuthPrompt, which is the manager's root dialog.  Each onTurn call runs the
\* steps of onTurn on its own TurnContext; the steps of the two calls interleave
\* at the awaits.

\* where a call keeps onTurn's locals (`const lastAccess', `const dc',
\* `let turnResult'): they are locals of the call, not fields of the manager
FrameOfTheManager(c) == 1

Frame(c) == c

\* the dialog stack held in a conversation state
StackIn(state) ==
    IF DIALOGS \in DOMAIN state THEN WithDialogStack(state[DIALOGS]).dialogStack ELSE <<>>

\* the conversation state with the dialog stack replaced
WithStack(state, stk) ==
    SetProperty(state, DIALOGS, [kind |-> "object", dialogStack |-> stk])

\* one inbound turn of a conversation: the activity, the adapter, the environment's
\* answers, the options the root prompt is begun with and the validator's verdict
TurnInput(in, options, useLink, verdict) ==
    [activity |-> in.activity, adapter |-> in.adapter, env |-> in.env, pre |-> in.pre,
     options |-> options, useLink |-> useLink, verdict |-> verdict]

\* the turns a conversation may bring: a greeting nobody can sign in on, a typed
\* code the provider accepts, and a token exchange on an adapter that cannot
\* exchange
HostInputs ==
    { TurnInput(Input(Activity("message", "", Hello, UndefinedValue), FullAdapter,
                      Env("none", "token", {}), FALSE),
                [prompt |-> NoPrompt, retryPrompt |-> RetryPrompt], FALSE, FALSE),
      TurnInput(Input(Activity("message", "", CodeText, UndefinedValue), FullAdapter,
                      Env("token", "token", {}), FALSE),
                [prompt |-> NoPrompt, retryPrompt |-> NoPrompt], FALSE, TRUE),
      TurnInput(Input(Activity("invoke", tokenExchangeOperationName, <<>>,
                               ExchangeRequest(ConnectionName)),
                      NoExchangeAdapter, Env("none", "token", {}), FALSE),
                [prompt |-> NoPrompt, retryPrompt |-> NoPrompt], FALSE, FALSE) }

\* dc.beginDialog(rootDialogId) on an empty stack, r being what the prompt's
\* beginDialog did on the pushed instance
RootBegun(r) ==
    [stack |-> IF r.done THEN <<>> ELSE <<[id |-> OAuthPromptId, state |-> r.state]>>,
     threw |-> r.threw # "none",
     result |-> IF r.done THEN [status |-> "complete", value |-> r.value] ELSE EndOfTurn]

\* dc.continueDialog() on the stack stk, r being what the prompt's continueDialog
\* did on the instance on top
RootContinued(stk, r) ==
    [stack |-> IF r.done THEN SubSeq(stk, 1, Len(stk) - 1)
                         ELSE [stk EXCEPT ![Len(stk)].state = r.state],
     threw |-> r.threw # "none",
     result |-> IF r.done THEN [status |-> "complete", value |-> r.value] ELSE EndOfTurn]

\* lines 145-155 with the OAuthPrompt as root dialog: an empty stack begins the
\* prompt, otherwise the prompt on top is continued
DriveRoot(stk, in, t) ==
    IF stk = <<>>
    THEN RootBegun(OAuthBeginDialog(NewContext(in.activity, in.adapter, in.pre), in.env,
                                    in.options, in.useLink, t))
    ELSE RootContinued(stk, OAuthContinueDialog(NewContext(in.activity, in.adapter, in.pre),
                                                in.env, stk[Len(stk)].state, in.verdict, t))

\* the activities of a conversation: its first opens the dialog with a greeting,
\* its second is any of the turns above
HostTurns ==
    << {in \in HostInputs : in.activity.type = "message" /\ in.activity.text = Hello},
       HostInputs >>

\* the call of conversation c moves on to position p, having read the clock or not
Advance(c, p, readings) ==
    [inFlight EXCEPT ![c].pc = p, ![c].reads = @ \o readings]

\* lines 105-117 for conversation c; the host's clock ticks once per inbound
\* activity, so a call may read a later clock than it was entered at whenever the
\* other conversation's activity has arrived in between
HostOnTurn(c) ==
    /\ inFlight[c].pc = "idle"
    /\ inFlight[c].turns < Len(HostTurns)
    /\ ConfigurationError(manager) = "none"
    /\ \E t \in {now + 1}, in \in HostTurns[inFlight[c].turns + 1] :
          \E g \in {GetProperty(Load(UndefinedValue, conversations[c].storage), LAST_ACCESS,
                                ToISOString(t))} :
             /\ now' = t
             /\ conversations' = [conversations EXCEPT ![c].cached = g.state]
             /\ locals' = [locals EXCEPT ![Frame(c)].lastAccess = ParseDate(g.value)]
             /\ inFlight' = [inFlight EXCEPT ![c] =
                                [pc |-> "checkExpired", input |-> in, reads |-> <<t>>,
                                 entry |-> conversations[c].storage,
                                 outcome |-> [kind |-> "pending"],
                                 turns |-> @.turns + 1]]
    /\ UNCHANGED <<promptVars, managerVars>>

\* lines 119-124 for conversation c
HostCheckExpired(c) ==
    /\ inFlight[c].pc = "checkExpired"
    /\ conversations' = [conversations EXCEPT ![c].cached =
                            IF IsExpired(manager.expireAfter, now, locals[Frame(c)].lastAccess)
                            THEN Clear(@) ELSE @]
    /\ inFlight' = Advance(c, "setLastAccess", <<now>>)
    /\ UNCHANGED <<now, locals, promptVars, managerVars>>

\* lines 126-127 for conversation c
HostSetLastAccess(c) ==
    /\ inFlight[c].pc = "setLastAccess"
    /\ conversations' = [conversations EXCEPT ![c].cached =
                            SetProperty(@, LAST_ACCESS,
                                        ToISOString(locals[Frame(c)].lastAccess))]
    /\ inFlight' = Advance(c, "getDialogs", <<>>)
    /\ UNCHANGED <<now, locals, promptVars, managerVars>>

\* lines 129-140 for conversation c: the DialogContext is made on the context's state
HostGetDialogs(c) ==
    /\ inFlight[c].pc = "getDialogs"
    /\ \E g \in {GetProperty(conversations[c].cached, DIALOGS, EmptyObject)} :
          conversations' = [conversations EXCEPT ![c].cached =
                               SetProperty(g.state, DIALOGS, WithDialogStack(g.value))]
    /\ locals' = [locals EXCEPT ![Frame(c)].dc = c]
    /\ inFlight' = Advance(c, "drive", <<>>)
    /\ UNCHANGED <<now, promptVars, managerVars>>

\* lines 143-163 for conversation c: the prompt handles no error event, so an
\* error is rethrown
HostDrive(c) ==
    /\ inFlight[c].pc = "drive"
    /\ LET d == locals[Frame(c)].dc
       IN  \E r \in {DriveRoot(StackIn(conversations[d].cached), inFlight[c].input, now)} :
              /\ conversations' = [conversations EXCEPT ![d].cached = WithStack(@, r.stack)]
              /\ IF r.threw
                 THEN /\ Rethrows(DcEmitEvent(r.stack, {}, ErrorEventBubbles,
                                              ErrorEventFromLeaf).handled)
                      /\ inFlight' = [Advance(c, "idle", <<now>>) EXCEPT
                                         ![c].outcome = [kind |-> "raised",
                                                         error |-> "dialogError"]]
                      /\ UNCHANGED locals
                 ELSE /\ locals' = [locals EXCEPT ![Frame(c)].turnResult = r.result]
                      /\ inFlight' = Advance(c, AfterLoop, <<now>>)
    /\ UNCHANGED <<now, promptVars, managerVars>>

\* lines 165-166 for conversation c: the state of dc's context is saved
HostSaveAllChanges(c) ==
    /\ inFlight[c].pc = "saveAllChanges"
    /\ LET d == locals[Frame(c)].dc
       IN  conversations' = [conversations EXCEPT ![d].storage = conversations[d].cached]
    /\ inFlight' = Advance(c, "sendTrace", <<>>)
    /\ UNCHANGED <<now, locals, promptVars, managerVars>>

\* lines 168-178 for conversation c
HostSendTrace(c) ==
    /\ inFlight[c].pc = "sendTrace"
    /\ inFlight' = [Advance(c, "idle", <<>>) EXCEPT
                       ![c].outcome = [kind |-> "returned",
                                       turnResult |-> locals[Frame(c)].turnResult]]
    /\ UNCHANGED <<now, conversations, locals, promptVars, managerVars>>

\* the prompts and managers the host runs: every setting, with and without expiry
InitHost ==
    /\ settings \in Settings
    /\ now = 0
    /\ PromptAtRest
    /\ manager \in { Manager(OAuthPromptId, TRUE, e) :
                        e \in {UndefinedValue, [kind |-> "number", value |-> ExpireAfter]} }
    /\ storage = EmptyObject
    /\ ManagerAtRest
    /\ HostAtRest

NextHost ==
    \E c \in Conversations :
        \/ HostOnTurn(c)
        \/ HostCheckExpired(c)
        \/ HostSetLastAccess(c)
        \/ HostGetDialogs(c)
        \/ HostDrive(c)
        \/ HostSaveAllChanges(c)
        \/ HostSendTrace(c)

SpecHost == InitHost /\ [][NextHost]_vars

(***************************  observations  *******************************)

\* the instance the last turn ran on: the one it popped, else the one on top
LastInstance == IF ended # NoInstance THEN ended ELSE stack[Len(stack)]

\* the provider calls of the last turn to operation op
CallsTo(op) == {i \in 1..Len(calls) : calls[i].op = op}

\* the invokeResponse activities the last turn tried to send
InvokeResponses == {i \in 1..Len(sent) : sent[i].activity.type = "invokeResponse"}

\* the retry prompts the last turn tried to send
RetryPromptsSent ==
    {i \in 1..Len(sent) : sent[i].activity.type = "message"
                           /\ "text" \in DOMAIN sent[i].activity
                           /\ sent[i].activity.text = RetryPrompt.text}

Completed(value) == result = [status |-> "complete", value |-> value]

(***************************  claims  **************************************)

\* C1: in beginDialog, whenever the silent getUserToken (connection name, no code)
\* returns a token, the prompt ends in that same turn with that token as its
\* result, nothing is sent and getSignInResource is not called.
C1_SilentAuth ==
    (turn = "begin" /\ \E i \in CallsTo("getUserToken") :
                           calls[i].code = NoCode /\ calls[i].returned = "token"
                           /\ calls[i].connectionName = ConnectionName)
    => /\ Completed(ProviderToken(NoCode))
       /\ stack = <<>>
       /\ sent = <<>>
       /\ CallsTo("getSignInResource") = {}

C1_Witness ==
    /\ turn = "begin"
    /\ calls = <<Call("getUserToken", NoCode, "token")>>
    /\ Completed(ProviderToken(NoCode))

\* C2: recognizeToken takes at most one of the four recognition paths, in the
\* priority order event, verification invoke, token-exchange invoke, message text:
\* an activity that matches a higher-priority path triggers no provider call or
\* reply of a lower one, and a token is recognized by at most one path per turn.
C2_ExclusivePaths ==
    turn = "continue" =>
        /\ Cardinality(path) <= 1
        /\ recognized.succeeded => Cardinality(path) = 1
        /\ (activity.type = "event" /\ activity.name = tokenResponseEventName)
              => path = {"event"} /\ calls = <<>> /\ sent = <<>>
        /\ (activity.type = "invoke" /\ activity.name = verifyStateOperationName)
              => /\ path = {"verification"}
                 /\ CallsTo("exchangeToken") = {}
                 /\ \A i \in InvokeResponses :
                        sent[i].activity.status \in {StatusOK, StatusNotFound, StatusServerError}
        /\ (activity.type = "invoke" /\ activity.name = tokenExchangeOperationName)
              => /\ path = {"exchange"}
                 /\ CallsTo("getUserToken") = {}
                 /\ \A i \in InvokeResponses :
                        sent[i].activity.status \in {StatusOK, StatusBadRequest,
                                                     StatusConflict, StatusBadGateway}
        /\ activity.type = "message"
              => path \subseteq {"message"} /\ CallsTo("exchangeToken") = {}
                 /\ InvokeResponses = {}
        /\ (activity.type \in {"event", "invoke"}
            /\ activity.name \notin {tokenResponseEventName, verifyStateOperationName,
                                     tokenExchangeOperationName})
              => path = {} /\ calls = <<>> /\ sent = <<>>

\* an event that carries a token and whose text holds a six-digit code is
\* recognized by the event path alone
C2_Witness ==
    /\ turn = "continue"
    /\ activity = Activity("event", tokenResponseEventName, Code6, EventToken)
    /\ path = {"event"}
    /\ recognized = [succeeded |-> TRUE, value |-> EventToken]

\* C3 (as claimed): a continue turn whose activity is a plain message arriving
\* after state.expires always ends the prompt with an absent result, whatever
\* the text and whatever the provider answers.
C3_TimeoutPrecedence ==
    (turn = "continue" /\ activity.type = "message" /\ now > LastInstance.state.expires)
    => Completed(UndefinedValue) /\ stack = <<>>

\* the validator's verdict in the last turn (FALSE when it was not invoked)
ValidatorAccepted == validated /\ validatorCalls[Len(validatorCalls)].returned

\* C4: with a validator, within one activation the stored attemptCount rises by
\* exactly 1 on each continue turn whose validation fails, and the k-th validator
\* call of the activation receives attemptCount = k, on every kind of activity.
C4_AttemptCounting ==
    /\ [](settings.hasValidator =>
            /\ \A k \in 1..Len(validatorCalls) : validatorCalls[k].attemptCount = k
            /\ stack # <<>> => AttemptCount(stack[Len(stack)].state) = Len(validatorCalls))
    /\ [][(settings.hasValidator /\ turn' = "continue" /\ validated' /\ ~ValidatorAccepted')
            => /\ stack # <<>> /\ stack' # <<>>
               /\ AttemptCount(stack'[Len(stack')].state)
                    = AttemptCount(stack[Len(stack)].state) + 1
               /\ Len(validatorCalls') = Len(validatorCalls) + 1]_vars

\* the second failed validation of an activation, on an invoke activity
C4_Witness ==
    /\ settings.hasValidator
    /\ turn = "continue" /\ activity.type = "invoke"
    /\ validatorCalls = <<[attemptCount |-> 1, returned |-> FALSE],
                          [attemptCount |-> 2, returned |-> FALSE]>>
    /\ stack # <<>> /\ AttemptCount(stack[Len(stack)].state) = 2

\* C5: on a continue turn that the timeout ends, the validator is not invoked and
\* the stored attemptCount (the whole instance state) is as it was before the turn.
C5_TimeoutBypassesValidation ==
    [][(turn' = "continue" /\ timedOut')
         => /\ ~validated'
            /\ validatorCalls' = validatorCalls
            /\ stack # <<>>
            /\ ended' = stack[Len(stack)]]_vars

\* a prompt with one failed validation is ended by the timeout
C5_Witness ==
    /\ turn = "continue" /\ timedOut
    /\ settings.hasValidator
    /\ Len(validatorCalls) = 1
    /\ AttemptCount(ended.state) = 1
    /\ Completed(UndefinedValue)

\* the conditions, read off the inbound activity, the adapter and the answers
\* logged in the turn, under which recognizeToken raises
RecognitionRaises ==
    \/ /\ activity.type = "invoke" /\ activity.name = verifyStateOperationName
       /\ \/ IsUndefined(activity.value)
          \/ sent # <<>> /\ ~sent[Len(sent)].delivered
    \/ /\ activity.type = "invoke" /\ activity.name = tokenExchangeOperationName
       /\ \/ sent # <<>> /\ ~sent[Len(sent)].delivered
          \/ sent # <<>> /\ sent[Len(sent)].activity.status = StatusBadGateway
          \/ \E i \in CallsTo("exchangeToken") : calls[i].returned = "throw"
    \/ /\ activity.type = "message"
       /\ \E i \in CallsTo("getUserToken") : calls[i].returned = "throw"

\* sending the retry prompt failed
RetryRaises ==
    RetryPromptsSent # {} /\ ~sent[Len(sent)].delivered

\* what C6 says makes the prompt complete
C6_Accepted ==
    \/ settings.hasValidator /\ ValidatorAccepted
    \/ ~settings.hasValidator /\ recognized.succeeded

\* C6 (as claimed): on a continue turn not ended by the timeout the prompt
\* completes iff the validator returns true, or there is no validator and a token
\* was recognized; the result is the recognized value; in every other case the
\* prompt returns waiting and stays on top of the stack.
C6_CompletesOrWaits ==
    (turn = "continue" /\ ~timedOut)
    => /\ (result.status = "complete") <=> C6_Accepted
       /\ result.status = "complete" => result.value = recognized.value /\ stack = <<>>
       /\ result.status # "complete"
            => result = EndOfTurn /\ stack # <<>> /\ ended = NoInstance

\* C6 (amended): ... in every other case the prompt stays on top of the stack, and
\* returns waiting unless the turn raised (recognition raised, or sending the
\* retry prompt failed), in which case continueDialog throws.
C6_CompletesWaitsOrRaises ==
    (turn = "continue" /\ ~timedOut)
    => /\ (result.status = "complete") <=> C6_Accepted
       /\ result.status = "complete" => result.value = recognized.value /\ stack = <<>>
       /\ result.status # "complete"
            => /\ stack # <<>> /\ ended = NoInstance
               /\ stack[Len(stack)].id = OAuthPromptId
               /\ result = IF RecognitionRaises \/ RetryRaises THEN Thrown ELSE EndOfTurn

\* a validator accepts a turn in which nothing was recognized: absent result
C6_Witness ==
    /\ turn = "continue" /\ ~timedOut
    /\ settings.hasValidator /\ ValidatorAccepted
    /\ ~recognized.succeeded
    /\ Completed(UndefinedValue)

\* validation ran in the last turn and failed
ValidationFailed ==
    /\ turn = "continue" /\ ~timedOut /\ raised # "recognizeToken"
    /\ IF settings.hasValidator THEN validated /\ ~ValidatorAccepted
                                ELSE ~recognized.succeeded

\* C7: in a continue turn the retry prompt is sent iff the turn was not ended by
\* the timeout, validation failed, nothing had been sent in the turn, the activity
\* is a plain message and a retry prompt is configured; at most once per turn,
\* never on invoke or event turns.
C7_RetryPrompt ==
    turn = "continue"
    => /\ Cardinality(RetryPromptsSent) <= 1
       /\ (RetryPromptsSent # {})
            <=> /\ ~timedOut
                /\ ValidationFailed
                /\ ~respondedIn
                /\ activity.type = "message"
                /\ ~IsUndefined(LastInstance.state.options.retryPrompt)

C7_Witness ==
    /\ turn = "continue"
    /\ Cardinality(RetryPromptsSent) = 1
    /\ sent[1].delivered
    /\ result = EndOfTurn

\* C8 (as claimed): an invoke or event activity never ends the prompt by timeout;
\* such a turn always goes through recognition and validation.
C8_InvokeAlwaysValidated ==
    (turn = "continue" /\ activity.type \in {"invoke", "event"})
    => ~timedOut /\ raised = "none"
       /\ (settings.hasValidator => validated)

\* C8 (amended): an invoke or event activity never ends the prompt by timeout;
\* such a turn always goes through recognition, and through validation unless
\* recognition raises; it completes only with the value recognized in the turn.
C8_InvokeNeverTimesOut ==
    (turn = "continue" /\ activity.type \in {"invoke", "event"})
    => /\ ~timedOut
       /\ IF RecognitionRaises
          THEN result = Thrown /\ ~validated
          ELSE /\ result.status \in {"waiting", "complete"}
               /\ settings.hasValidator => validated
               /\ (result.status = "complete") <=> C6_Accepted
       /\ result.status = "complete" => result.value = recognized.value

\* a token-response event arriving after the deadline completes the prompt
C8_Witness ==
    /\ turn = "continue" /\ activity.type = "event"
    /\ ended # NoInstance /\ now > ended.state.expires
    /\ Completed(EventToken)

\* the inbound token-exchange payload has a token field / the configured name
ExchangeHasToken == activity.value.kind = "object" /\ "token" \in DOMAIN activity.value
ExchangeNameMatches ==
    "connectionName" \in DOMAIN activity.value
    /\ activity.value.connectionName = ConnectionName

\* the turn replied exactly once, with this status, called exchangeToken never
\* and recognized nothing
RejectedWith(status) ==
    /\ Len(sent) = 1
    /\ sent[1].activity.type = "invokeResponse" /\ sent[1].activity.status = status
    /\ CallsTo("exchangeToken") = {}
    /\ ~recognized.succeeded

\* C9: on a token-exchange invoke the checks run in order and the first failing
\* one decides the reply: no token field -> 400; else other connection name ->
\* 400; else adapter without exchange support -> 502; only when all three pass is
\* exchangeToken called.
C9_ExchangeCheckOrder ==
    (turn = "continue" /\ activity.type = "invoke"
     /\ activity.name = tokenExchangeOperationName)
    => /\ ~ExchangeHasToken => RejectedWith(StatusBadRequest)
       /\ (ExchangeHasToken /\ ~ExchangeNameMatches) => RejectedWith(StatusBadRequest)
       /\ (ExchangeHasToken /\ ExchangeNameMatches /\ ~adapter.hasExchangeToken)
            => RejectedWith(StatusBadGateway)
       /\ (ExchangeHasToken /\ ExchangeNameMatches /\ adapter.hasExchangeToken)
            => Cardinality(CallsTo("exchangeToken")) = 1

\* a payload with neither a token nor the right name, on an adapter without
\* exchange support, is answered 400
C9_Witness ==
    /\ turn = "continue"
    /\ activity.type = "invoke" /\ activity.name = tokenExchangeOperationName
    /\ activity.value = NoTokenRequest("Wrong")
    /\ ~adapter.hasExchangeToken
    /\ RejectedWith(StatusBadRequest)

\* C10: a token-exchange invoke with a token field and the configured connection
\* name, on an adapter without exchangeToken, is answered 502 and continueDialog
\* raises: the validator is not invoked, no retry prompt is sent, and the prompt
\* returns neither waiting nor completed.
C10_UnsupportedAdapterRaises ==
    (turn = "continue" /\ activity.type = "invoke"
     /\ activity.name = tokenExchangeOperationName
     /\ ExchangeHasToken /\ ExchangeNameMatches /\ ~adapter.hasExchangeToken)
    => /\ Len(sent) = 1
       /\ sent[1].activity = GetTokenExchangeInvokeResponse(StatusBadGateway, "undefined")
       /\ result = Thrown
       /\ result.status \notin {"waiting", "complete"}
       /\ ~validated
       /\ RetryPromptsSent = {}
       /\ stack # <<>> /\ ended = NoInstance

C10_Witness ==
    /\ turn = "continue"
    /\ activity.type = "invoke" /\ activity.name = tokenExchangeOperationName
    /\ ExchangeHasToken /\ ExchangeNameMatches /\ ~adapter.hasExchangeToken
    /\ settings.hasValidator
    /\ sent[1].delivered
    /\ result = Thrown

\* the last turn was a token-exchange invoke that passed the three checks
ExchangePassedChecks ==
    /\ turn = "continue"
    /\ activity.type = "invoke" /\ activity.name = tokenExchangeOperationName
    /\ ExchangeHasToken /\ ExchangeNameMatches /\ adapter.hasExchangeToken

\* the replies of the last turn that reached the channel with this status
DeliveredReplies(status) ==
    {i \in InvokeResponses : sent[i].delivered /\ sent[i].activity.status = status}

\* what exchangeToken answered in the last turn
ExchangeReturned(answers) ==
    \E i \in CallsTo("exchangeToken") : calls[i].returned \in answers

\* the turn tried to send exactly one reply, with this status and this request id
OnlyReply(status, id) ==
    /\ Len(sent) = 1
    /\ sent[1].activity.type = "invokeResponse"
    /\ sent[1].activity.status = status
    /\ sent[1].activity.id = id

\* the token the provider gives in exchange, as the prompt reports it
TokenFromExchange ==
    [kind |-> "object", channelId |-> "ch", connectionName |-> ConnectionName,
     token |-> "tokX", expiration |-> "null"]

\* C11 (as claimed): on a token-exchange invoke that passes the three checks a
\* token is recognized iff the reply sent is 200; exchangeToken returning nothing
\* or no token gives reply 409 and no token; exchangeToken returning a token gives
\* reply 200 with the inbound request's id and the exchanged token is recognized.
C11_ExchangeAlwaysAccepted ==
    ExchangePassedChecks
    => /\ recognized.succeeded <=> DeliveredReplies(StatusOK) # {}
       /\ ExchangeReturned({"none", "notoken"})
            => OnlyReply(StatusConflict, "undefined") /\ ~recognized.succeeded
       /\ ExchangeReturned({"token"})
            => /\ OnlyReply(StatusOK, activity.value.id)
               /\ recognized = [succeeded |-> TRUE, value |-> TokenFromExchange]

\* C11 (amended): ... exchangeToken returning a token gives reply 200 with the
\* inbound request's id, and the exchanged token is recognized when that reply is
\* delivered; when sending it fails recognizeToken raises and nothing is recognized.
C11_ExchangeReply ==
    ExchangePassedChecks
    => /\ recognized.succeeded <=> DeliveredReplies(StatusOK) # {}
       /\ ExchangeReturned({"none", "notoken"})
            => OnlyReply(StatusConflict, "undefined") /\ ~recognized.succeeded
       /\ ExchangeReturned({"token"})
            => /\ OnlyReply(StatusOK, activity.value.id)
               /\ IF sent[1].delivered
                  THEN recognized = [succeeded |-> TRUE, value |-> TokenFromExchange]
                  ELSE ~recognized.succeeded /\ result = Thrown /\ ~validated

C11_Witness ==
    /\ ExchangePassedChecks
    /\ ExchangeReturned({"token"})
    /\ sent[1].delivered /\ sent[1].activity.id = "req1"
    /\ recognized.value.token = "tokX"

\* the last turn was a verification invoke whose code the provider was asked for
VerificationAsked ==
    /\ turn = "continue"
    /\ activity.type = "invoke" /\ activity.name = verifyStateOperationName
    /\ CallsTo("getUserToken") # {}

\* the statuses of the replies the last turn tried to send, in order
ReplyStatuses == [i \in 1..Len(sent) |-> sent[i].activity.status]

\* C12 (as claimed): on a verification invoke the reply status is 200 when the
\* provider returns a token for the carried code, 404 when it returns none and 500
\* when the provider call fails; a provider failure does not leave continueDialog:
\* the turn goes on to validation with nothing recognized; a token is recognized on
\* this path only when the reply was 200.
C12_VerificationReply ==
    VerificationAsked
    => /\ calls[1].code = StringCode(activity.value.state)
       /\ calls[1].returned = "token" => ReplyStatuses = <<StatusOK>>
       /\ calls[1].returned = "none" => ReplyStatuses = <<StatusNotFound>>
       /\ calls[1].returned = "throw" => ReplyStatuses = <<StatusServerError>>
       /\ (calls[1].returned = "throw" /\ sent[Len(sent)].delivered)
            => /\ raised = "none"
               /\ ~recognized.succeeded
               /\ settings.hasValidator => validated
       /\ recognized.succeeded
            => ReplyStatuses = <<StatusOK>> /\ DeliveredReplies(StatusOK) # {}

\* the silent lookup of the last beginDialog returned no token
SilentLookupEmpty ==
    /\ turn = "begin"
    /\ \E i \in CallsTo("getUserToken") : calls[i].code = NoCode /\ calls[i].returned = "none"

\* the card type used for the channel of the last turn
WantedCardType == IF IsOAuthCardSupported([adapter |-> adapter]) THEN oauthCard ELSE signinCard

\* the attachments of the caller's prompt message
CallerAttachments ==
    LET p == LastInstance.state.options.prompt
    IN  IF p.kind = "object" THEN p.attachments ELSE <<>>

\* how many cards of the channel's type a sequence of attachments holds
WantedCardsIn(attachments) ==
    Cardinality({i \in 1..Len(attachments) : attachments[i].contentType = WantedCardType})

\* the prompt is on top of the stack, for the next turn
PromptOnTop ==
    stack # <<>> /\ stack[Len(stack)].id = OAuthPromptId /\ ended = NoInstance

\* C13 (as claimed): in beginDialog, when the silent lookup returns no token, the
\* prompt sends exactly one message, carrying exactly one login card of the type
\* used for the channel (none added and no getSignInResource call when the
\* caller's message already carries one), returns waiting and stays on top.
C13_OneLoginCard ==
    SilentLookupEmpty
    => /\ Len(sent) = 1 /\ sent[1].activity.type = "message"
       /\ WantedCardsIn(sent[1].activity.attachments) = 1
       /\ WantedCardsIn(CallerAttachments) > 0
            => /\ sent[1].activity.attachments = CallerAttachments
               /\ CallsTo("getSignInResource") = {}
       /\ result = EndOfTurn
       /\ PromptOnTop

\* C13 (amended): ... the prompt stays on top of the stack and tries to send at
\* most one message: the caller's attachments unchanged, with no getSignInResource
\* call, when they already hold a card of the channel's type (one or more), else
\* the caller's attachments plus exactly one card of that type after one
\* getSignInResource call; it returns waiting when the message is sent, and raises
\* when getSignInResource fails (nothing is sent) or the send fails.
C13_LoginCardOrRaise ==
    SilentLookupEmpty
    => /\ PromptOnTop
       /\ Len(sent) <= 1
       /\ \A i \in 1..Len(sent) :
             /\ sent[i].activity.type = "message"
             /\ WantedCardsIn(sent[i].activity.attachments) >= 1
       /\ WantedCardsIn(CallerAttachments) > 0
            => /\ Len(sent) = 1
               /\ sent[1].activity.attachments = CallerAttachments
               /\ CallsTo("getSignInResource") = {}
       /\ WantedCardsIn(CallerAttachments) = 0
            => /\ Cardinality(CallsTo("getSignInResource")) = 1
               /\ \A i \in CallsTo("getSignInResource") :
                     IF calls[i].returned = "throw"
                     THEN sent = <<>>
                     ELSE /\ Len(sent) = 1
                          /\ Len(sent[1].activity.attachments) = Len(CallerAttachments) + 1
                          /\ SubSeq(sent[1].activity.attachments, 1, Len(CallerAttachments))
                               = CallerAttachments
                          /\ WantedCardsIn(sent[1].activity.attachments) = 1
       /\ result = IF sent # <<>> /\ sent[1].delivered THEN EndOfTurn ELSE Thrown

\* on a channel that takes sign-in cards, a caller's message with an OAuth card
\* gets one sign-in card added
C13_Witness ==
    /\ SilentLookupEmpty
    /\ adapter.channelId = "msteams"
    /\ Len(CallerAttachments) = 1
    /\ Len(sent) = 1 /\ sent[1].delivered
    /\ Len(sent[1].activity.attachments) = 2
    /\ sent[1].activity.attachments[2].contentType = signinCard
    /\ result = EndOfTurn

\* C14 (as claimed): beginDialog sets the deadline to time of begin + configured
\* timeout, 900000 ms when settings.timeout is not a number, a timeout of 0 being
\* honoured; a later message turn is timed out exactly when its time is strictly
\* greater than the deadline.
C14_Deadline ==
    /\ turn = "begin"
        => LastInstance.state.expires
             = now + (IF settings.timeout.kind = "number" THEN settings.timeout.value
                                                          ELSE 900000)
    /\ (turn = "continue" /\ activity.type = "message")
        => /\ timedOut <=> now > LastInstance.state.expires
           /\ timedOut => Completed(UndefinedValue)

(***************************  claims on DialogManager.onTurn  **************)

\* the stack as the conversation state holds it between turns
PersistedStack ==
    IF DIALOGS \in DOMAIN storage THEN storage[DIALOGS].dialogStack ELSE <<>>

\* the positions of a stack from the leaf to the root
LeafToRoot(stk) == [k \in 1..Len(stk) |-> Len(stk) - k + 1]

\* C15: in onTurn, when the stack read from the conversation state is empty the
\* root dialog is begun; when it is not empty only the top dialog receives
\* continue and the root dialog is not begun in that turn, except when continue
\* reports status empty, in which case the root is begun.  A dialog that completes
\* during continue (leaving the stack empty) does not cause the root to be begun
\* again in the same turn.
C15_RootOrTop ==
    /\ [][pc = "drive"
            => /\ DcStack = <<>>
                    => /\ pass'.begun /\ pass'.continued = 0
                       /\ turnLog'.continued = turnLog.continued
               /\ DcStack # <<>>
                    => /\ pass'.continued = Len(DcStack)
                       /\ (turnLog'.continued \ turnLog.continued)
                             \subseteq {[index |-> Len(DcStack), id |-> DcStack[Len(DcStack)].id,
                                         fresh |-> DcStack[Len(DcStack)].fresh]}
                       /\ pass'.begun <=> pass'.status = "empty"
               /\ pass'.status = "complete"
                    => ~pass'.begun /\ pc' = "saveAllChanges" /\ DcStack' = <<>>]_vars
    /\ [](outcome.kind = "returned"
            => /\ turnLog.entry = <<>> => turnLog.begun
               /\ (turnLog.entry # <<>> /\ turnLog.begun) => turnLog.emptySeen)

\* a turn on a waiting conversation in which continue reported empty and the root
\* was begun
C15_Witness ==
    /\ outcome.kind = "returned"
    /\ turnLog.entry # <<>>
    /\ pass = [continued |-> Len(turnLog.entry), status |-> "empty", begun |-> TRUE]
    /\ turnLog.continued = {}

\* the errors a dialog's begin or continue throws
DialogErrors == {"beginError", "continueError"}

\* C16: when a dialog's begin or continue throws during onTurn and no dialog on the
\* stack handles the error event (emitted bubbling, from the leaf), onTurn re-raises
\* that same error to its caller, and in that turn saveAllChanges is never executed
\* and no BotState trace is sent.
C16_UnhandledErrorRaised ==
    /\ [][(pc = "emitEvent" /\ event'.handlers = {})
            => /\ thrown \in DialogErrors
               /\ event'.asked = LeafToRoot(DcStack)
               /\ outcome' = [kind |-> "raised", error |-> thrown]
               /\ pc' = "idle"
               /\ counts'.save = 0 /\ counts'.trace = 0
               /\ storage' = storage]_vars
    /\ []((outcome.kind = "raised" /\ outcome.error \in DialogErrors)
            => counts.save = 0 /\ counts.trace = 0 /\ ~event.handled)

\* the error of a child's continue went past the child and the root unhandled
C16_Witness ==
    /\ outcome = [kind |-> "raised", error |-> "continueError"]
    /\ event = [asked |-> <<2, 1>>, handlers |-> {}, handled |-> FALSE]
    /\ counts.load = 1 /\ counts.save = 0 /\ counts.trace = 0

\* C17 (as claimed): when a dialog's begin or continue throws during onTurn and a
\* dialog handles the error event, the turn completes normally: onTurn eventually
\* saves, sends the trace and returns to its caller (the only other way a turn
\* ends being an error that no dialog handles, C16), whatever the dialogs and
\* handlers do, a dialog that throws each time it is driven included.
C17_HandledTurnCompletes ==
    (pc = "drive" /\ turnLog.handled)
    ~> \/ outcome.kind = "returned" /\ counts.save = 1 /\ counts.trace = 1
       \/ outcome.kind = "raised" /\ ~event.handled

\* the manager lacks its root dialog or its conversation state
Unconfigured == manager.rootDialogId = "undefined" \/ ~manager.conversationState

\* C18: onTurn on a DialogManager with no root dialog, or with no conversation
\* state, raises a configuration error immediately: before any state property is
\* read, written or cleared, before any dialog is begun or continued and before any
\* activity is sent.
C18_ConfigurationError ==
    /\ [](Unconfigured
            => /\ pc = "idle"
               /\ outcome.kind \in {"none", "raised"}
               /\ touched = {} /\ cached = UndefinedValue /\ storage = EmptyObject
               /\ counts = NoCount
               /\ pass = NoPass /\ event = NoEvent /\ turnLog = NewTurnLog)
    /\ [][Unconfigured
            => outcome' = [kind |-> "raised",
                           error |-> IF manager.rootDialogId = "undefined"
                                     THEN "rootDialog not configured"
                                     ELSE "conversationState not configured"]]_vars

\* a manager with a root dialog and no conversation state has been called
C18_Witness ==
    /\ manager.rootDialogId = RootDialogId /\ ~manager.conversationState
    /\ outcome = [kind |-> "raised", error |-> "conversationState not configured"]
    /\ touched = {}

\* C19: in every turn that onTurn returns from normally, the memory scopes are
\* loaded exactly once, before any dialog runs; saveAllChanges runs exactly once,
\* after the dialog run has finished; exactly one BotState trace is sent, after the
\* save; no save happens between the load and the end of the dialog run.
C19_LoadRunSaveTrace ==
    /\ [](outcome.kind = "returned" => counts = [load |-> 1, save |-> 1, trace |-> 1])
    /\ [][counts'.load > counts.load
            => counts'.load = 1 /\ pass = NoPass /\ ~turnLog.begun /\ turnLog.continued = {}]_vars
    /\ [][(pass' # pass \/ pc = "drive")
            => \/ pass' = NoPass
               \/ counts.load = 1 /\ counts.save = 0 /\ counts'.save = 0 /\ counts.trace = 0]_vars
    /\ [][counts'.save > counts.save
            => /\ counts'.save = 1 /\ counts.load = 1 /\ counts.trace = 0
               /\ turnResult.status \in {"waiting", "complete"}
               /\ pc' \notin {"drive", "emitEvent"}]_vars
    /\ [][counts'.trace > counts.trace
            => counts'.trace = 1 /\ counts.save = 1 /\ outcome'.kind = "returned"]_vars

\* a turn that handled an error, ran the stack again and returned
C19_Witness ==
    /\ outcome.kind = "returned"
    /\ turnLog.handled
    /\ counts = [load |-> 1, save |-> 1, trace |-> 1]

\* the state operations of a turn that has reached the dialog stack
ReadTheStack == ("get " \o DIALOGS) \in touched

\* C20: at the start of a turn the conversation state is cleared iff expireAfter is
\* configured and (current time - stored last access) >= expireAfter; when it is
\* cleared the dialog stack read for the turn is empty, so the root dialog is begun
\* afresh and no dialog instance of the expired conversation is continued; with
\* expireAfter not configured the state is never cleared.
C20_Expiry ==
    /\ [][pc = "checkExpired"
            => /\ turnLog'.cleared
                    <=> /\ manager.expireAfter.kind = "number"
                        /\ now' - lastAccess >= manager.expireAfter.value
               /\ turnLog'.cleared <=> "clear" \in touched'
               /\ turnLog'.cleared => cached' = EmptyObject
               /\ LAST_ACCESS \in DOMAIN storage
                    => lastAccess = ParseDate(storage[LAST_ACCESS])]_vars
    /\ []((turnLog.cleared /\ ReadTheStack)
            => /\ turnLog.entry = <<>>
               /\ \A c \in turnLog.continued : c.fresh
               /\ pass # NoPass => turnLog.begun)
    /\ [](IsUndefined(manager.expireAfter) => ~turnLog.cleared /\ "clear" \notin touched)
    /\ []("clear" \in touched => turnLog.cleared)

\* a conversation with a waiting dialog, last accessed ExpireAfter ms ago, is
\* cleared and its root dialog begun afresh
C20_Witness ==
    /\ manager.expireAfter = [kind |-> "number", value |-> ExpireAfter]
    /\ PersistedStack # <<>>
    /\ now - lastAccess = ExpireAfter
    /\ turnLog.cleared /\ turnLog.entry = <<>> /\ turnLog.begun /\ turnLog.continued = {}
    /\ pc = "saveAllChanges"

\* C21: each turn updates the stored last-access time to the time of that turn, so
\* expiry is measured from the conversation's most recent turn: a turn that
\* arrives less than expireAfter after the previous turn of the conversation is
\* not cleared (neither in a conversation whose turns are always that close, nor
\* right after an expired conversation has been cleared), and the last-access
\* time a returned turn leaves in the conversation state is not older than the
\* previous turn.
C21_ExpiryFromLastTurn ==
    /\ [][(/\ pc = "checkExpired"
           /\ turnLog.previous # NoInstant
           /\ manager.expireAfter.kind = "number"
           /\ now' - turnLog.previous < manager.expireAfter.value)
            => ~turnLog'.cleared]_vars
    /\ []((outcome.kind = "returned" /\ turnLog.previous # NoInstant)
            => ParseDate(storage[LAST_ACCESS]) >= turnLog.previous)

\* C22: at the beginning of every turn, every key of DialogManager.initialTurnState
\* (the dialogManager entry set by the constructor included) is present in the
\* turn context's turnState before any dialog is begun or continued.
C22_InitialTurnStateCopied ==
    (pc \in {"drive", "emitEvent", "saveAllChanges", "sendTrace"} \/ pass # NoPass)
        => InitialTurnState \subseteq turnState

(***************************  claims on the prompt, continued  *************)

\* the last turn was a plain message that arrived after the prompt's deadline
LateMessage ==
    turn = "continue" /\ activity.type = "message" /\ now > LastInstance.state.expires

\* C24 (as claimed): the timeout is detected at the start of a message turn, before
\* any recognition: on a message turn after the deadline the prompt makes no
\* provider call (no getUserToken lookup with a typed six-digit code).
C24_TimeoutBeforeRecognition == LateMessage => calls = <<>>

SignInInvoke ==
    /\ turn = "continue"
    /\ activity.type = "invoke"
    /\ activity.name \in {verifyStateOperationName, tokenExchangeOperationName}

\* C26 (as claimed): every verification invoke or token-exchange invoke handled by a
\* waiting prompt gets exactly one invokeResponse activity in that turn, on every
\* branch, also when sending the first response fails; event and message turns get
\* no invokeResponse.
C26_OneInvokeResponse ==
    /\ SignInInvoke => Cardinality(InvokeResponses) = 1
    /\ (turn = "continue" /\ activity.type \in {"event", "message"}) => InvokeResponses = {}

\* the deadline and the options of an instance
DeadlineAndOptions(instance) == [expires |-> instance.state.expires,
                                 options |-> instance.state.options]

\* C27: a waiting prompt leaves the stack only in two ways: a validation that
\* succeeds (result = the value recognized in the turn) or a message turn after the
\* deadline (absent result).  No number of failed attempts ends it: a turn that is
\* not a late message and whose validation fails leaves the prompt on the stack,
\* with the same deadline and options, whatever its attemptCount.
C27_TwoWaysOut ==
    /\ [][turn' = "continue"
            => /\ stack # <<>>
               /\ stack' = <<>>
                    => /\ ended' = [stack[Len(stack)] EXCEPT !.state = ended'.state]
                       /\ \/ /\ isValid' /\ ~timedOut'
                             /\ result' = [status |-> "complete", value |-> recognized'.value]
                          \/ /\ timedOut' /\ ~isValid'
                             /\ activity'.type = "message"
                             /\ now' > stack[Len(stack)].state.expires
                             /\ result' = [status |-> "complete", value |-> UndefinedValue]
               /\ (~isValid' /\ ~(activity'.type = "message"
                                   /\ now' > stack[Len(stack)].state.expires))
                    => /\ Len(stack') = Len(stack)
                       /\ stack'[Len(stack')].id = stack[Len(stack)].id
                       /\ DeadlineAndOptions(stack'[Len(stack')])
                            = DeadlineAndOptions(stack[Len(stack)])
                       /\ result'.status \in {"waiting", "error"}]_vars
    /\ [](result.status \in {"none", "waiting", "complete", "error"})

\* after as many failed validations as the model explores, on an event that
\* arrived after the deadline, the prompt is still waiting
C27_Witness ==
    /\ turn = "continue" /\ activity.type = "event"
    /\ settings.hasValidator
    /\ Len(validatorCalls) = MaxAttempts /\ ~ValidatorAccepted
    /\ stack # <<>> /\ now > stack[Len(stack)].state.expires
    /\ AttemptCount(stack[Len(stack)].state) = MaxAttempts
    /\ result = EndOfTurn

\* C28: when recognition raises out of continueDialog (the 502 capability failure,
\* a provider failure during the typed-code lookup or the token exchange), the
\* prompt's stored state is unchanged by that turn: the instance is still on top of
\* the stack with the same options, deadline and attemptCount, the validator was
\* not invoked and no retry prompt was sent.
C28_RaiseLeavesStateAlone ==
    /\ [][(turn' = "continue" /\ raised' = "recognizeToken")
            => /\ stack' = stack /\ stack # <<>>
               /\ ended' = NoInstance
               /\ ~validated' /\ validatorCalls' = validatorCalls
               /\ RetryPromptsSent' = {}
               /\ result' = Thrown]_vars
    /\ []((/\ turn = "continue"
           /\ \E i \in 1..Len(calls) :
                 /\ calls[i].returned = "throw"
                 /\ \/ calls[i].op = "exchangeToken"
                    \/ calls[i].op = "getUserToken" /\ activity.type = "message")
            => raised = "recognizeToken")

\* the 502 failure on a prompt that has one failed validation behind it
C28_Witness ==
    /\ turn = "continue" /\ raised = "recognizeToken"
    /\ activity.name = tokenExchangeOperationName /\ ~adapter.hasExchangeToken
    /\ \E i \in InvokeResponses : sent[i].activity.status = StatusBadGateway
    /\ settings.hasValidator
    /\ Len(validatorCalls) = 1
    /\ stack # <<>> /\ AttemptCount(stack[Len(stack)].state) = 1

(***************************  claims on concurrent conversations  **********)

\* onTurn run alone on a conversation: what it leaves in the conversation state and
\* gives its caller, from the state at entry, the turn's input and the three
\* clock readings of the turn (entry, expiry check, dialog run)
RunAlone(stored, in, reads) ==
    LET g == GetProperty(Load(UndefinedValue, stored), LAST_ACCESS, ToISOString(reads[1]))
        accessed == ParseDate(g.value)
        checked == IF IsExpired(manager.expireAfter, reads[2], accessed)
                   THEN Clear(g.state) ELSE g.state
        stamped == SetProperty(checked, LAST_ACCESS, ToISOString(accessed))
        d == GetProperty(stamped, DIALOGS, EmptyObject)
        ready == SetProperty(d.state, DIALOGS, WithDialogStack(d.value))
        r == DriveRoot(ready[DIALOGS].dialogStack, in, reads[3])
    IN  IF r.threw
        THEN [storage |-> stored, outcome |-> [kind |-> "raised", error |-> "dialogError"]]
        ELSE [storage |-> WithStack(ready, r.stack),
              outcome |-> [kind |-> "returned", turnResult |-> r.result]]

\* a step after which every finished turn of conversation c has left what it
\* would have left alone, and which, when it is a step of c's call, leaves the
\* other conversation's state as it was
IsolatedStep(c) ==
    /\ (inFlight'[c].pc = "idle" /\ inFlight'[c].turns > 0)
          => LET alone == RunAlone(inFlight'[c].entry, inFlight'[c].input,
                                   inFlight'[c].reads)
             IN  /\ conversations'[c].storage = alone.storage
                 /\ inFlight'[c].outcome = alone.outcome
    /\ inFlight'[c] # inFlight[c]
          => \A d \in Conversations \ {c} : conversations'[d] = conversations[d]

\* C23: turns of different conversations may be processed concurrently by one
\* DialogManager and one OAuthPrompt instance: for every interleaving of the steps
\* of two onTurn calls on different conversations, each conversation ends with the
\* same dialog stack, prompt state (options, deadline, attemptCount) and turn
\* result as if its turn had run alone, and no step of one conversation's turn
\* changes the other conversation's state.
C23_ConcurrentTurnsIsolated == [][\A c \in Conversations : IsolatedStep(c)]_vars

\* the second turns of both conversations are in flight at once, each about to
\* return: one leaves a waiting prompt that has counted an attempt, the other's
\* prompt has completed with the token of the typed code
C23_Witness ==
    /\ inFlight[1].pc = "sendTrace" /\ inFlight[1].turns = 2
    /\ inFlight[2].pc = "sendTrace" /\ inFlight[2].turns = 2
    /\ settings.hasValidator
    /\ StackIn(conversations[1].storage) # <<>>
    /\ AttemptCount(StackIn(conversations[1].storage)[1].state) = 1
    /\ locals[Frame(1)].turnResult = EndOfTurn
    /\ StackIn(conversations[2].storage) = <<>>
    /\ locals[Frame(2)].turnResult = [status |-> "complete", value |-> ProviderToken(StringCode(Code6))]

====
